---- MODULE Spec2Model ----
\* Gratitude journal: the persisted entry store (data/storage.js), the CSV
\* import/export service (services/csvService.js) and the callers in the UI
\* handlers, modelled as a state machine over the localStorage slot.
\*
\* Strings are sequences of one-character strings, so that trim(), the CSV
\* quoting rule and the CSV parser work on characters as the code does.
EXTENDS Integers, Sequences, FiniteSets, TLC

VARIABLES
    slot,       \* the localStorage item the entries are kept in
    storageOk,  \* FALSE while localStorage.setItem throws (quota, unavailable)
    pending,    \* the files whose FileReader read is in flight
    last        \* the last call: arguments, slot before it, what it gave back

vars == <<slot, storageOk, pending, last>>

\* ------------------------------------------------------------------ bounds
\* Largest number of entries (over all dates) the store is allowed to reach.
MaxEntries == 2
\* Largest number of file reads in flight at once.
MaxPending == 2
MaxExtraFields == 1
CalendarWindow == 5
MaxMidnights == 1
\* Longest field of the codec checks.
MaxFieldLen == 3
\* Largest number of data lines in the files of the codec checks.
MaxRows == 3
\* Largest number of entries in the stores of the frequency checks.
MaxTexts == 3
\* Number of consecutive calendar days the stores of the streak checks span.
StreakWindow == 6

\* ------------------------------------------------------------ characters
SP == " "
NL == "\n"
COMMA == ","
QUOTE == "\""

IsWhitespace(c) == c \in {SP, NL}

IsDigit(c) == c \in {"0", "1", "2", "3", "4", "5", "6", "7", "8", "9"}

\* String.prototype.trim(): drops the whitespace at both ends.
RECURSIVE TrimLeft(_)
TrimLeft(s) ==
    IF s = <<>> THEN <<>>
    ELSE IF IsWhitespace(Head(s)) THEN TrimLeft(Tail(s))
    ELSE s

RECURSIVE TrimRight(_)
TrimRight(s) ==
    IF s = <<>> THEN <<>>
    ELSE IF IsWhitespace(s[Len(s)]) THEN TrimRight(SubSeq(s, 1, Len(s) - 1))
    ELSE s

\* A trim that drops the whitespace at the start only.
Trim_leftOnly(s) == TrimLeft(s)

Trim(s) == TrimRight(TrimLeft(s))

\* Array.prototype.includes on a list of strings (exact string equality).
Includes(list, item) == \E i \in 1..Len(list) : list[i] = item

\* ------------------------------------------------------------ JS objects
\* A plain object with string keys is the sequence of its own properties in
\* insertion order (the order Object.keys/Object.entries enumerate; date
\* keys are never integer-like, so no reordering applies).
EmptyObject == <<>>

HasKey(obj, k) == \E i \in 1..Len(obj) : obj[i].k = k

KeyIndex(obj, k) == CHOOSE i \in 1..Len(obj) : obj[i].k = k

\* obj[k] for a present key.
Get(obj, k) == obj[KeyIndex(obj, k)].v

\* obj[k] = list: replaces in place or appends a new property.
Put(obj, k, list) ==
    IF HasKey(obj, k)
    THEN [obj EXCEPT ![KeyIndex(obj, k)] = [k |-> k, v |-> list]]
    ELSE Append(obj, [k |-> k, v |-> list])

ObjectKeys(obj) == {obj[i].k : i \in 1..Len(obj)}

\* The list a mapping holds for a key, [] when the key is absent.
ListOf(obj, k) == IF HasKey(obj, k) THEN Get(obj, k) ELSE <<>>

RECURSIVE TotalCount(_)
TotalCount(obj) ==
    IF obj = <<>> THEN 0 ELSE Len(Head(obj).v) + TotalCount(Tail(obj))

\* --------------------------------------------------------- storage slot
\* The localStorage item 'gratitudeEntries'. kind is what the stored text
\* is: "absent" (getItem returns null), "empty" (the empty string),
\* "unparsable" (JSON.parse throws), or the JSON value it parses to:
\* "null", "number", or "object" (val is then the object).
AbsentSlot == [kind |-> "absent", val |-> EmptyObject]

JsObject(obj) == [kind |-> "object", val |-> obj]

\* getAllEntries(): stored ? JSON.parse(stored) : {}, {} when parse throws.
getAllEntries(s) ==
    IF s.kind \in {"absent", "empty"} THEN JsObject(EmptyObject)
    ELSE IF s.kind = "unparsable" THEN JsObject(EmptyObject)
    ELSE [kind |-> s.kind, val |-> s.val]

\* saveEntries(entries): localStorage.setItem(KEY, JSON.stringify(entries)).
\* ok = FALSE is setItem throwing (quota, storage unavailable): the item
\* keeps its old value and saveEntries throws.
\* saveEntries with a catch that logs and does not rethrow.
saveEntries_swallowed(s, entries, ok) ==
    IF ok THEN [slot |-> [kind |-> entries.kind, val |-> entries.val], threw |-> FALSE]
    ELSE [slot |-> s, threw |-> FALSE]

saveEntries(s, entries, ok) ==
    IF ok THEN [slot |-> [kind |-> entries.kind, val |-> entries.val], threw |-> FALSE]
    ELSE [slot |-> s, threw |-> TRUE]

\* ------------------------------------------------------------ entry store
\* addEntry(dateKey, item). res is "true"/"false" for the value returned and
\* "raise" for an exception reaching the caller. A stored JSON null makes
\* entries[dateKey] throw; a stored number makes the assignment
\* entries[dateKey] = [] throw (module code is strict).
\* addEntry pushing item instead of item.trim().
addEntry_untrimmed(s, dateKey, item, ok) ==
    IF item = <<>> \/ Trim(item) = <<>> THEN [slot |-> s, res |-> "false"]
    ELSE LET entries == getAllEntries(s) IN
         IF entries.kind # "object" THEN [slot |-> s, res |-> "raise"]
         ELSE LET list == ListOf(entries.val, dateKey)
                  pushed == Put(entries.val, dateKey, Append(list, item))
                  saved == saveEntries(s, JsObject(pushed), ok)
              IN  IF saved.threw THEN [slot |-> saved.slot, res |-> "raise"]
                  ELSE [slot |-> saved.slot, res |-> "true"]

\* addEntry with the check !item alone (no trim in the check).
addEntry_unchecked(s, dateKey, item, ok) ==
    IF item = <<>> THEN [slot |-> s, res |-> "false"]
    ELSE LET entries == getAllEntries(s) IN
         IF entries.kind # "object" THEN [slot |-> s, res |-> "raise"]
         ELSE LET list == ListOf(entries.val, dateKey)
                  pushed == Put(entries.val, dateKey, Append(list, Trim(item)))
                  saved == saveEntries(s, JsObject(pushed), ok)
              IN  IF saved.threw THEN [slot |-> saved.slot, res |-> "raise"]
                  ELSE [slot |-> saved.slot, res |-> "true"]

\* addEntry with unshift in place of push: the new entry goes to the front.
addEntry_unshift(s, dateKey, item, ok) ==
    IF item = <<>> \/ Trim(item) = <<>> THEN [slot |-> s, res |-> "false"]
    ELSE LET entries == getAllEntries(s) IN
         IF entries.kind # "object" THEN [slot |-> s, res |-> "raise"]
         ELSE LET list == ListOf(entries.val, dateKey)
                  pushed == Put(entries.val, dateKey, <<Trim(item)>> \o list)
                  saved == saveEntries(s, JsObject(pushed), ok)
              IN  IF saved.threw THEN [slot |-> saved.slot, res |-> "raise"]
                  ELSE [slot |-> saved.slot, res |-> "true"]

addEntry(s, dateKey, item, ok) ==
    IF item = <<>> \/ Trim(item) = <<>> THEN [slot |-> s, res |-> "false"]
    ELSE LET entries == getAllEntries(s) IN
         IF entries.kind # "object" THEN [slot |-> s, res |-> "raise"]
         ELSE LET list == ListOf(entries.val, dateKey)
                  pushed == Put(entries.val, dateKey, Append(list, Trim(item)))
                  saved == saveEntries(s, JsObject(pushed), ok)
              IN  IF saved.threw THEN [slot |-> saved.slot, res |-> "raise"]
                  ELSE [slot |-> saved.slot, res |-> "true"]

\* updateEntry(dateKey, index, newText); index is the 0-based JS index.
\* A stored number has no property dateKey, so the call returns false.
\* list[index] = text as JavaScript does it: index = length appends.
SetAt(list, index, text) ==
    IF index = Len(list) THEN Append(list, text)
    ELSE [list EXCEPT ![index + 1] = text]

\* updateEntry with the range check index > length.
updateEntry_offByOne(s, dateKey, index, newText, ok) ==
    IF newText = <<>> \/ Trim(newText) = <<>> THEN [slot |-> s, res |-> "false"]
    ELSE LET entries == getAllEntries(s) IN
         IF entries.kind = "null" THEN [slot |-> s, res |-> "raise"]
         ELSE IF entries.kind # "object" \/ ~HasKey(entries.val, dateKey)
              THEN [slot |-> s, res |-> "false"]
         ELSE LET list == Get(entries.val, dateKey) IN
              IF index < 0 \/ index > Len(list) THEN [slot |-> s, res |-> "false"]
              ELSE LET replaced == Put(entries.val, dateKey,
                                       SetAt(list, index, Trim(newText)))
                       saved == saveEntries(s, JsObject(replaced), ok)
                   IN  IF saved.threw THEN [slot |-> saved.slot, res |-> "raise"]
                       ELSE [slot |-> saved.slot, res |-> "true"]

\* updateEntry storing newText instead of newText.trim().
updateEntry_untrimmed(s, dateKey, index, newText, ok) ==
    IF newText = <<>> \/ Trim(newText) = <<>> THEN [slot |-> s, res |-> "false"]
    ELSE LET entries == getAllEntries(s) IN
         IF entries.kind = "null" THEN [slot |-> s, res |-> "raise"]
         ELSE IF entries.kind # "object" \/ ~HasKey(entries.val, dateKey)
              THEN [slot |-> s, res |-> "false"]
         ELSE LET list == Get(entries.val, dateKey) IN
              IF index < 0 \/ index >= Len(list) THEN [slot |-> s, res |-> "false"]
              ELSE LET replaced == Put(entries.val, dateKey,
                                       SetAt(list, index, newText))
                       saved == saveEntries(s, JsObject(replaced), ok)
                   IN  IF saved.threw THEN [slot |-> saved.slot, res |-> "raise"]
                       ELSE [slot |-> saved.slot, res |-> "true"]

updateEntry(s, dateKey, index, newText, ok) ==
    IF newText = <<>> \/ Trim(newText) = <<>> THEN [slot |-> s, res |-> "false"]
    ELSE LET entries == getAllEntries(s) IN
         IF entries.kind = "null" THEN [slot |-> s, res |-> "raise"]
         ELSE IF entries.kind # "object" \/ ~HasKey(entries.val, dateKey)
              THEN [slot |-> s, res |-> "false"]
         ELSE LET list == Get(entries.val, dateKey) IN
              IF index < 0 \/ index >= Len(list) THEN [slot |-> s, res |-> "false"]
              ELSE LET replaced == Put(entries.val, dateKey,
                                       SetAt(list, index, Trim(newText)))
                       saved == saveEntries(s, JsObject(replaced), ok)
                   IN  IF saved.threw THEN [slot |-> saved.slot, res |-> "raise"]
                       ELSE [slot |-> saved.slot, res |-> "true"]

\* getEntriesByDate(dateKey): entries[dateKey] || []. Reading a property of
\* null throws; a number has no such property.
getEntriesByDate(s, dateKey) ==
    LET entries == getAllEntries(s) IN
    IF entries.kind = "null" THEN [res |-> "raise", list |-> <<>>]
    ELSE IF entries.kind = "object" /\ HasKey(entries.val, dateKey)
         THEN [res |-> "value", list |-> Get(entries.val, dateKey)]
    ELSE [res |-> "value", list |-> <<>>]

\* ------------------------------------------------------------ CSV export
Header ==
    <<"D", "a", "t", "e", COMMA,
      "G", "r", "a", "t", "i", "t", "u", "d", "e", SP, "E", "n", "t", "r", "y">>

Contains(str, c) == \E i \in 1..Len(str) : str[i] = c

\* cellStr.replace(/"/g, '""')
RECURSIVE DoubleQuotes(_)
DoubleQuotes(str) ==
    IF str = <<>> THEN <<>>
    ELSE IF Head(str) = QUOTE THEN <<QUOTE, QUOTE>> \o DoubleQuotes(Tail(str))
    ELSE <<Head(str)>> \o DoubleQuotes(Tail(str))

\* The cell test without the newline case.
EscapeCell_noNewline(cellStr) ==
    IF Contains(cellStr, COMMA) \/ Contains(cellStr, QUOTE)
    THEN <<QUOTE>> \o DoubleQuotes(cellStr) \o <<QUOTE>>
    ELSE cellStr

\* One cell of the export: quoted when it holds a comma, a quote or a newline.
EscapeCell(cellStr) ==
    IF Contains(cellStr, COMMA) \/ Contains(cellStr, QUOTE) \/ Contains(cellStr, NL)
    THEN <<QUOTE>> \o DoubleQuotes(cellStr) \o <<QUOTE>>
    ELSE cellStr

\* Array.prototype.join for a list of strings.
RECURSIVE Join(_, _)
Join(strs, sep) ==
    IF strs = <<>> THEN <<>>
    ELSE IF Len(strs) = 1 THEN strs[1]
    ELSE strs[1] \o sep \o Join(Tail(strs), sep)

\* The data lines of the export: one "date,item" line per entry, dates in
\* Object.entries order, items in list order.
RECURSIVE DataLines(_)
DataLines(obj) ==
    IF obj = <<>> THEN <<>>
    ELSE [i \in 1..Len(Head(obj).v) |->
              EscapeCell(Head(obj).k) \o <<COMMA>> \o EscapeCell(Head(obj).v[i])]
         \o DataLines(Tail(obj))

\* csvContent of exportToCSV for the entries object.
csvContent(obj) == Join(<<Header>> \o DataLines(obj), <<NL>>)

\* exportToCSV(): Object.entries(null) throws; a number has no entries.
exportToCSV(s) ==
    LET entries == getAllEntries(s) IN
    IF entries.kind = "null" THEN [res |-> "raise", csv |-> <<>>]
    ELSE IF entries.kind = "object" THEN [res |-> "value", csv |-> csvContent(entries.val)]
    ELSE [res |-> "value", csv |-> csvContent(EmptyObject)]

\* ------------------------------------------------------------- CSV import
\* csvContent.split('\n')
RECURSIVE SplitLines(_, _)
SplitLines(str, cur) ==
    IF str = <<>> THEN <<cur>>
    ELSE IF Head(str) = NL THEN <<cur>> \o SplitLines(Tail(str), <<>>)
    ELSE SplitLines(Tail(str), Append(cur, Head(str)))

\* The loop of parseCSVLine from 0-based position i on.
RECURSIVE parseCSVLineFrom(_, _, _, _, _)
parseCSVLineFrom(line, i, current, inQuotes, result) ==
    IF i >= Len(line) THEN Append(result, current)
    ELSE LET char == line[i + 1] IN
         IF char = QUOTE
         THEN IF inQuotes /\ i + 1 < Len(line) /\ line[i + 2] = QUOTE
              THEN parseCSVLineFrom(line, i + 2, Append(current, QUOTE), inQuotes, result)
              ELSE parseCSVLineFrom(line, i + 1, current, ~inQuotes, result)
         ELSE IF char = COMMA /\ ~inQuotes
              THEN parseCSVLineFrom(line, i + 1, <<>>, inQuotes, Append(result, current))
         ELSE parseCSVLineFrom(line, i + 1, Append(current, char), inQuotes, result)

\* parseCSVLine without the escaped-quote branch: every quote toggles.
RECURSIVE parseCSVLineFrom_noEscape(_, _, _, _, _)
parseCSVLineFrom_noEscape(line, i, current, inQuotes, result) ==
    IF i >= Len(line) THEN Append(result, current)
    ELSE LET char == line[i + 1] IN
         IF char = QUOTE
         THEN parseCSVLineFrom_noEscape(line, i + 1, current, ~inQuotes, result)
         ELSE IF char = COMMA /\ ~inQuotes
              THEN parseCSVLineFrom_noEscape(line, i + 1, <<>>, inQuotes,
                                             Append(result, current))
         ELSE parseCSVLineFrom_noEscape(line, i + 1, Append(current, char),
                                        inQuotes, result)

parseCSVLine_noEscape(line) == parseCSVLineFrom_noEscape(line, 0, <<>>, FALSE, <<>>)

parseCSVLine(line) == parseCSVLineFrom(line, 0, <<>>, FALSE, <<>>)

\* The date test without the two separators.
DateShape_anySeparator(date) ==
    /\ Len(date) = 10
    /\ \A i \in {1, 2, 3, 4, 6, 7, 9, 10} : IsDigit(date[i])

\* /^\d{4}-\d{2}-\d{2}$/.test(date)
DateShape(date) ==
    /\ Len(date) = 10
    /\ \A i \in {1, 2, 3, 4, 6, 7, 9, 10} : IsDigit(date[i])
    /\ date[5] = "-"
    /\ date[8] = "-"

\* The loop of parseCSV over lines[i..], lines 1-based here (the caller
\* starts at the second line).
RECURSIVE parseCSVFrom(_, _, _)
parseCSVFrom(lines, i, entries) ==
    IF i > Len(lines) THEN entries
    ELSE LET line == Trim(lines[i])
             row == parseCSVLine(line)
             date == Trim(row[1])
             item == Trim(row[2])
         IN  IF line = <<>> THEN parseCSVFrom(lines, i + 1, entries)
             ELSE IF Len(row) >= 2 /\ date # <<>> /\ item # <<>> /\ DateShape(date)
                  THEN parseCSVFrom(lines, i + 1,
                                    Put(entries, date, Append(ListOf(entries, date), item)))
             ELSE parseCSVFrom(lines, i + 1, entries)

\* parseCSV with a loop that starts at the first line.
parseCSV_fromFirst(csv) == parseCSVFrom(SplitLines(csv, <<>>), 1, EmptyObject)

parseCSV(csv) == parseCSVFrom(SplitLines(csv, <<>>), 2, EmptyObject)

\* One row of the export: row.map(cell => ...).join(',')
ExportRow(row) == Join([i \in 1..Len(row) |-> EscapeCell(row[i])], <<COMMA>>)

\* ------------------------------------------------------------------ merge
\* items.forEach(item => { if (!list.includes(item)) list.push(item) })
\* The forEach without the includes() test.
PushMissing_all(list, items) == list \o items

RECURSIVE PushMissing(_, _)
PushMissing(list, items) ==
    IF items = <<>> THEN list
    ELSE IF Includes(list, Head(items)) THEN PushMissing(list, Tail(items))
    ELSE PushMissing(Append(list, Head(items)), Tail(items))

\* The merge with a concat for a date that exists: every imported item is
\* appended.
RECURSIVE MergeInto_concat(_, _)
MergeInto_concat(mergedEntries, imported) ==
    IF imported = <<>> THEN mergedEntries
    ELSE LET date == Head(imported).k
             items == Head(imported).v
         IN  IF HasKey(mergedEntries, date)
             THEN MergeInto_concat(Put(mergedEntries, date,
                                       Get(mergedEntries, date) \o items),
                                   Tail(imported))
             ELSE MergeInto_concat(Put(mergedEntries, date, items), Tail(imported))

RECURSIVE MergeInto(_, _)
MergeInto(mergedEntries, imported) ==
    IF imported = <<>> THEN mergedEntries
    ELSE LET date == Head(imported).k
             items == Head(imported).v
         IN  IF HasKey(mergedEntries, date)
             THEN MergeInto(Put(mergedEntries, date,
                                PushMissing(Get(mergedEntries, date), items)),
                            Tail(imported))
             ELSE MergeInto(Put(mergedEntries, date, items), Tail(imported))

\* mergeEntries(importedEntries): { ...existingEntries } is {} for a stored
\* null or number.
mergeEntries(s, importedEntries) ==
    LET existingEntries == getAllEntries(s)
        copy == IF existingEntries.kind = "object" THEN existingEntries.val
                ELSE EmptyObject
    IN  JsObject(MergeInto(copy, importedEntries))

\* ------------------------------------------------------------------ inputs
D1 == <<"2", "0", "2", "5", "-", "0", "1", "-", "0", "1">>
D2 == <<"2", "0", "2", "5", "-", "0", "1", "-", "0", "2">>

\* Date keys the view layer passes (formatDate output).
DateKeys == {D1, D2}

\* Raw texts a caller passes to addEntry.
Texts ==
    { <<>>,
      <<SP>>,
      <<SP, "a", NL>>,
      <<"a", COMMA, "b", QUOTE, "c">>,
      <<"a", NL, "b">> }

\* Raw texts a caller passes to updateEntry.
NewTexts == { <<SP>>, <<"A", SP>> }

\* Indices a caller passes to updateEntry.
Indices == {0 - 1, 0, 1, 2}

\* A date of the right shape that no calendar has.
UnrealDate == <<"2", "0", "2", "5", "-", "0", "2", "-", "3", "0">>

\* Files the user picks for import, by name.
Files == {"header.csv", "merge.csv", "mixed.csv"}

\* Files written by hand or by another program.
ForeignFiles == {"unreal.csv"}

\* What FileReader.readAsText gives for a file.
\*   header.csv  the header line alone
\*   merge.csv   the header and the same row twice
\*   mixed.csv   a first line that is a data row, a quoted field with a
\*               comma and a doubled quote, rows the parser rejects, and a
\*               blank last line
\*   unreal.csv  the header and a row dated 30 February
FileText(file) ==
    CASE file = "header.csv" -> Header
      [] file = "merge.csv" ->
            Join(<<Header, D1 \o <<COMMA, "A">>, D1 \o <<COMMA, "A">>>>, <<NL>>)
      [] file = "mixed.csv" ->
            Join(<<D2 \o <<COMMA, "a">>,
                   D1 \o <<COMMA, QUOTE, "a", COMMA, "b", QUOTE, QUOTE, "c", QUOTE>>,
                   <<"2", "0", "2", "5", "-", "1", "-", "0", "1", COMMA, "a">>,
                   <<COMMA, "a">>,
                   D1,
                   <<>>>>, <<NL>>)
      [] file = "unreal.csv" ->
            Join(<<Header, UnrealDate \o <<COMMA, "a">>>>, <<NL>>)

\* --------------------------------------------------------- import handlers
\* importedCount: Object.values(importedEntries).reduce(sum of lengths)
importedCount(importedEntries) == TotalCount(importedEntries)

\* parseCSV(e.target.result) for each file (the content of a file is fixed).
ParsedFile == [file \in Files \cup ForeignFiles |-> parseCSV(FileText(file))]

\* reader.onload without the check for an empty parse result.
onload_noEmptyCheck(s, file, ok) ==
    LET importedEntries == ParsedFile[file]
        mergedEntries == mergeEntries(s, importedEntries)
        saved == saveEntries(s, mergedEntries, ok)
    IN  IF saved.threw
        THEN [slot |-> saved.slot, res |-> "reject", imp |-> importedEntries,
              merged |-> mergedEntries, count |-> 0]
        ELSE [slot |-> saved.slot, res |-> "resolve", imp |-> importedEntries,
              merged |-> mergedEntries, count |-> importedCount(importedEntries)]

\* reader.onload resolving with the number of entries the merge added.
onload_countAdded(s, file, ok) ==
    LET importedEntries == ParsedFile[file] IN
    IF Len(importedEntries) = 0
    THEN [slot |-> s, res |-> "reject", imp |-> importedEntries,
          merged |-> JsObject(EmptyObject), count |-> 0]
    ELSE LET mergedEntries == mergeEntries(s, importedEntries)
             saved == saveEntries(s, mergedEntries, ok)
         IN  IF saved.threw
             THEN [slot |-> saved.slot, res |-> "reject", imp |-> importedEntries,
                   merged |-> mergedEntries, count |-> 0]
             ELSE [slot |-> saved.slot, res |-> "resolve", imp |-> importedEntries,
                   merged |-> mergedEntries,
                   count |-> TotalCount(mergedEntries.val)
                                - TotalCount(getAllEntries(s).val)]

\* reader.onload saving the parsed file in place of the merged entries.
onload_overwriting(s, file, ok) ==
    LET importedEntries == ParsedFile[file] IN
    IF Len(importedEntries) = 0
    THEN [slot |-> s, res |-> "reject", imp |-> importedEntries,
          merged |-> JsObject(EmptyObject), count |-> 0]
    ELSE LET mergedEntries == JsObject(importedEntries)
             saved == saveEntries(s, mergedEntries, ok)
         IN  IF saved.threw
             THEN [slot |-> saved.slot, res |-> "reject", imp |-> importedEntries,
                   merged |-> mergedEntries, count |-> 0]
             ELSE [slot |-> saved.slot, res |-> "resolve", imp |-> importedEntries,
                   merged |-> mergedEntries, count |-> importedCount(importedEntries)]

\* reader.onload of importFromCSV for a file. res is "resolve" (count is the
\* value resolved) or "reject".
onload(s, file, ok) ==
    LET importedEntries == ParsedFile[file] IN
    IF Len(importedEntries) = 0
    THEN [slot |-> s, res |-> "reject", imp |-> importedEntries,
          merged |-> JsObject(EmptyObject), count |-> 0]
    ELSE LET mergedEntries == mergeEntries(s, importedEntries)
             saved == saveEntries(s, mergedEntries, ok)
         IN  IF saved.threw
             THEN [slot |-> saved.slot, res |-> "reject", imp |-> importedEntries,
                   merged |-> mergedEntries, count |-> 0]
             ELSE [slot |-> saved.slot, res |-> "resolve", imp |-> importedEntries,
                   merged |-> mergedEntries, count |-> importedCount(importedEntries)]

\* ------------------------------------------------------------ history
\* ok is storageOk at the call, pre the slot before it; ret, list, csv,
\* count, rank and row are what the call returned, imp what the import
\* parsed; today and zone are the clock and the time zone of the call. form
\* is what the inputs of the Today form hold, fields what they held when the
\* form was submitted. In the calendar view key is currentCalendarDate, month
\* is currentCalendarMonth and today is the day the clock shows.
NoCall ==
    [op |-> "none", key |-> <<>>, text |-> <<>>, index |-> 0, file |-> "",
     res |-> "none", ok |-> TRUE, pre |-> AbsentSlot, ret |-> JsObject(EmptyObject),
     list |-> <<>>, imp |-> EmptyObject, csv |-> <<>>, count |-> 0,
     today |-> 0, zone |-> <<>>, limit |-> 0, rank |-> <<>>, row |-> <<>>,
     form |-> <<>>, fields |-> <<>>, month |-> 0]

\* ------------------------------------------------------------ actions
Init ==
    /\ slot = AbsentSlot
    /\ storageOk = TRUE
    /\ pending = {}
    /\ last = NoCall

\* The browser's storage starts or stops refusing writes.
StorageChange ==
    /\ storageOk' = ~storageOk
    /\ UNCHANGED <<slot, pending, last>>

CallGetAllEntries ==
    /\ last' = [NoCall EXCEPT !.op = "getAll", !.pre = slot, !.res = "value",
                              !.ret = getAllEntries(slot)]
    /\ UNCHANGED <<slot, storageOk, pending>>

CallGetEntriesByDate(dateKey) ==
    LET r == getEntriesByDate(slot, dateKey) IN
    /\ last' = [NoCall EXCEPT !.op = "getByDate", !.key = dateKey, !.pre = slot,
                              !.res = r.res, !.list = r.list]
    /\ UNCHANGED <<slot, storageOk, pending>>

CallAddEntry(dateKey, item) ==
    LET r == addEntry(slot, dateKey, item, storageOk) IN
    /\ TotalCount(r.slot.val) <= MaxEntries
    /\ slot' = r.slot
    /\ last' = [NoCall EXCEPT !.op = "add", !.key = dateKey, !.text = item,
                              !.ok = storageOk, !.pre = slot, !.res = r.res]
    /\ UNCHANGED <<storageOk, pending>>

CallUpdateEntry(dateKey, index, newText) ==
    LET r == updateEntry(slot, dateKey, index, newText, storageOk) IN
    /\ slot' = r.slot
    /\ last' = [NoCall EXCEPT !.op = "update", !.key = dateKey, !.index = index,
                              !.text = newText, !.ok = storageOk, !.pre = slot,
                              !.res = r.res]
    /\ UNCHANGED <<storageOk, pending>>

\* mergeEntries writing the merged object to the slot itself.
CallMergeEntries_saving(file) ==
    LET importedEntries == ParsedFile[file]
        mergedEntries == mergeEntries(slot, importedEntries)
    IN
    /\ TotalCount(mergedEntries.val) <= MaxEntries
    /\ slot' = [kind |-> mergedEntries.kind, val |-> mergedEntries.val]
    /\ last' = [NoCall EXCEPT !.op = "merge", !.file = file, !.pre = slot,
                              !.res = "value", !.imp = importedEntries,
                              !.ret = mergedEntries]
    /\ UNCHANGED <<storageOk, pending>>

\* mergeEntries called on the parse of a file: it returns the merged object
\* and writes nothing.
CallMergeEntries(file) ==
    LET importedEntries == ParsedFile[file] IN
    /\ slot' = slot
    /\ last' = [NoCall EXCEPT !.op = "merge", !.file = file, !.pre = slot,
                              !.res = "value", !.imp = importedEntries,
                              !.ret = mergeEntries(slot, importedEntries)]
    /\ UNCHANGED <<storageOk, pending>>

\* An export that empties the store once the file is made.
CallExportToCSV_clearing ==
    LET r == exportToCSV(slot) IN
    /\ last' = [NoCall EXCEPT !.op = "export", !.pre = slot, !.res = r.res,
                              !.csv = r.csv]
    /\ slot' = JsObject(EmptyObject)
    /\ UNCHANGED <<storageOk, pending>>

CallExportToCSV ==
    LET r == exportToCSV(slot) IN
    /\ last' = [NoCall EXCEPT !.op = "export", !.pre = slot, !.res = r.res,
                              !.csv = r.csv]
    /\ UNCHANGED <<slot, storageOk, pending>>

\* importFromCSV(file): creates the reader and starts reader.readAsText. The
\* file input fires no change event for the file it already holds, and it
\* is cleared only when the import has settled.
importFromCSV(file) ==
    /\ file \notin pending
    /\ Cardinality(pending) < MaxPending
    /\ pending' = pending \cup {file}
    /\ last' = [NoCall EXCEPT !.op = "importStart", !.file = file, !.pre = slot]
    /\ UNCHANGED <<slot, storageOk>>

\* The read completes: reader.onload runs to its end.
ReaderOnload(file) ==
    LET r == onload(slot, file, storageOk) IN
    /\ file \in pending
    /\ TotalCount(r.slot.val) <= MaxEntries
    /\ pending' = pending \ {file}
    /\ slot' = r.slot
    /\ last' = [NoCall EXCEPT !.op = "importLoad", !.file = file, !.ok = storageOk,
                              !.pre = slot, !.res = r.res, !.imp = r.imp, !.ret = r.merged,
                              !.count = r.count]
    /\ UNCHANGED storageOk

\* The read fails: reader.onerror rejects the promise.
ReaderOnerror(file) ==
    /\ file \in pending
    /\ pending' = pending \ {file}
    /\ last' = [NoCall EXCEPT !.op = "importError", !.file = file, !.pre = slot,
                              !.res = "reject"]
    /\ UNCHANGED <<slot, storageOk>>

Next ==
    \/ StorageChange
    \/ CallGetAllEntries
    \/ \E k \in DateKeys : CallGetEntriesByDate(k)
    \/ \E k \in DateKeys, t \in Texts : CallAddEntry(k, t)
    \/ \E k \in DateKeys, i \in Indices, t \in NewTexts : CallUpdateEntry(k, i, t)
    \/ \E f \in Files : CallMergeEntries(f)
    \/ CallExportToCSV
    \/ \E f \in Files : importFromCSV(f)
    \/ \E f \in Files : ReaderOnload(f)
    \/ \E f \in Files : ReaderOnerror(f)

Spec == Init /\ [][Next]_vars

\* The slot may hold anything when the page loads (an older version of the
\* app, another script of the origin, a truncated write).
SlotContents ==
    { AbsentSlot,
      [kind |-> "empty", val |-> EmptyObject],
      [kind |-> "unparsable", val |-> EmptyObject],
      [kind |-> "null", val |-> EmptyObject],
      [kind |-> "number", val |-> EmptyObject],
      JsObject(EmptyObject) }

InitAnySlot ==
    /\ slot \in SlotContents
    /\ storageOk = TRUE
    /\ pending = {}
    /\ last = NoCall

SpecAnySlot == InitAnySlot /\ [][Next]_vars

\* The store under adds, updates and imports of files that the app itself
\* did not write.
NextForeign ==
    \/ \E k \in DateKeys, t \in Texts : CallAddEntry(k, t)
    \/ \E k \in DateKeys, i \in Indices, t \in NewTexts : CallUpdateEntry(k, i, t)
    \/ \E f \in ForeignFiles : importFromCSV(f)
    \/ \E f \in ForeignFiles : ReaderOnload(f)
    \/ \E f \in ForeignFiles : ReaderOnerror(f)

SpecForeign == Init /\ [][NextForeign]_vars

\* ------------------------------------------------------------------ dates
\* A Date at local midnight is the number of its calendar day, counted from
\* 1970-01-01; the two conversions are the proleptic Gregorian calendar the
\* Date object implements.
DaysFromCivil(y, m, d) ==
    LET yy == IF m <= 2 THEN y - 1 ELSE y
        era == yy \div 400
        yoe == yy - era * 400
        mp == (m + 9) % 12
        doy == (153 * mp + 2) \div 5 + d - 1
        doe == yoe * 365 + yoe \div 4 - yoe \div 100 + doy
    IN  era * 146097 + doe - 719468

\* getFullYear(), getMonth() + 1 and getDate() of the day.
CivilFromDays(z) ==
    LET zz == z + 719468
        era == zz \div 146097
        doe == zz - era * 146097
        yoe == (doe - doe \div 1460 + doe \div 36524 - doe \div 146096) \div 365
        doy == doe - (365 * yoe + yoe \div 4 - yoe \div 100)
        mp == (5 * doy + 2) \div 153
        d == doy - (153 * mp + 2) \div 5 + 1
        m == IF mp < 10 THEN mp + 3 ELSE mp - 9
        y == yoe + era * 400
    IN  [y |-> IF m <= 2 THEN y + 1 ELSE y, m |-> m, d |-> d]

DigitChars == <<"0", "1", "2", "3", "4", "5", "6", "7", "8", "9">>

DigitChar(n) == DigitChars[n + 1]

DigitValue(c) == (CHOOSE i \in 1..10 : DigitChars[i] = c) - 1

\* String(n).padStart(2, '0') for n < 100.
PadStart2(n) == <<DigitChar(n \div 10), DigitChar(n % 10)>>

\* String(year) for a four-digit year.
YearString(y) ==
    <<DigitChar(y \div 1000), DigitChar((y \div 100) % 10),
      DigitChar((y \div 10) % 10), DigitChar(y % 10)>>

\* formatDate(date) of dateUtils.
formatDate(day) ==
    LET c == CivilFromDays(day)
    IN  YearString(c.y) \o <<"-">> \o PadStart2(c.m) \o <<"-">> \o PadStart2(c.d)

\* The calendar day of new Date(dateString + 'T00:00:00').
DayOfDateString(str) ==
    DaysFromCivil(DigitValue(str[1]) * 1000 + DigitValue(str[2]) * 100
                      + DigitValue(str[3]) * 10 + DigitValue(str[4]),
                  DigitValue(str[6]) * 10 + DigitValue(str[7]),
                  DigitValue(str[9]) * 10 + DigitValue(str[10]))

\* A time zone is the list of its clock changes: day is the calendar day of
\* the change and len the hours that day lasts (23 when clocks go forward,
\* 25 when they go back).
HoursPerDay == 24

RECURSIVE ShiftBefore(_, _)
ShiftBefore(zone, day) ==
    IF zone = <<>> THEN 0
    ELSE (IF Head(zone).day < day THEN Head(zone).len - HoursPerDay ELSE 0)
         + ShiftBefore(Tail(zone), day)

\* The time value of local midnight of a day, in hours (all the times the
\* code subtracts are whole hours); the zone's base offset is left out, it
\* cancels in every difference.
LocalMidnight(zone, day) == HoursPerDay * day + ShiftBefore(zone, day)

\* ---------------------------------------------------------------- streaks
\* entries[dateString] && entries[dateString].length > 0
HasEntries(entries, dateString) ==
    /\ entries.kind = "object"
    /\ HasKey(entries.val, dateString)
    /\ Len(Get(entries.val, dateString)) > 0

\* The while loop of calculateStreak from currentDate backwards.
RECURSIVE CountBackwards(_, _)
CountBackwards(entries, currentDate) ==
    IF HasEntries(entries, formatDate(currentDate))
    THEN 1 + CountBackwards(entries, currentDate - 1)
    ELSE 0

\* calculateStreak with a today that does not itself count as a pause: no
\* entry today gives 0.
calculateStreak_todayBreaks(s, today) ==
    LET entries == getAllEntries(s) IN
    IF entries.kind = "null" THEN [res |-> "raise", count |-> 0]
    ELSE IF HasEntries(entries, formatDate(today))
         THEN [res |-> "value", count |-> 1 + CountBackwards(entries, today - 1)]
    ELSE [res |-> "value", count |-> 0]

\* calculateStreak() when new Date() is on the day today. Reading a property
\* of a stored null throws.
calculateStreak(s, today) ==
    LET entries == getAllEntries(s) IN
    IF entries.kind = "null" THEN [res |-> "raise", count |-> 0]
    ELSE IF HasEntries(entries, formatDate(today))
         THEN [res |-> "value", count |-> 1 + CountBackwards(entries, today - 1)]
    ELSE [res |-> "value", count |-> CountBackwards(entries, today - 1)]

\* a.localeCompare(b) <= 0 for two date keys (digits and '-' in the same
\* places): character by character.
RECURSIVE LocaleLessEq(_, _)
LocaleLessEq(a, b) ==
    IF a = <<>> THEN TRUE
    ELSE IF b = <<>> THEN FALSE
    ELSE IF Head(a) = Head(b) THEN LocaleLessEq(Tail(a), Tail(b))
    ELSE IF Head(a) = "-" THEN TRUE
    ELSE IF Head(b) = "-" THEN FALSE
    ELSE DigitValue(Head(a)) < DigitValue(Head(b))

\* Array.prototype.sort with that comparator (insertion into a sorted list).
RECURSIVE InsertSorted(_, _)
InsertSorted(sorted, key) ==
    IF sorted = <<>> THEN <<key>>
    ELSE IF LocaleLessEq(Head(sorted), key)
         THEN <<Head(sorted)>> \o InsertSorted(Tail(sorted), key)
    ELSE <<key>> \o sorted

RECURSIVE SortKeys(_)
SortKeys(keys) ==
    IF keys = <<>> THEN <<>>
    ELSE InsertSorted(SortKeys(SubSeq(keys, 1, Len(keys) - 1)), keys[Len(keys)])

\* Object.keys(entries).filter(the day has entries)
RECURSIVE KeysWithEntries(_)
KeysWithEntries(obj) ==
    IF obj = <<>> THEN <<>>
    ELSE (IF Len(Head(obj).v) > 0 THEN <<Head(obj).k>> ELSE <<>>)
         \o KeysWithEntries(Tail(obj))

\* Math.floor((currentDate - prevDate) / (1000 * 60 * 60 * 24))
daysDiff(zone, prevKey, currentKey) ==
    (LocalMidnight(zone, DayOfDateString(currentKey))
        - LocalMidnight(zone, DayOfDateString(prevKey))) \div HoursPerDay

\* The for loop of calculateLongestStreak from index i (1-based here).
RECURSIVE LongestFrom(_, _, _, _, _)
LongestFrom(zone, dates, i, currentStreak, longestStreak) ==
    IF i > Len(dates) THEN longestStreak
    ELSE IF daysDiff(zone, dates[i - 1], dates[i]) = 1
         THEN LongestFrom(zone, dates, i + 1, currentStreak + 1,
                          IF currentStreak + 1 > longestStreak
                          THEN currentStreak + 1 ELSE longestStreak)
    ELSE LongestFrom(zone, dates, i + 1, 1, longestStreak)

\* calculateLongestStreak() in a browser whose local time zone is zone.
\* Object.keys of a stored null throws; a number has no keys.
calculateLongestStreak(s, zone) ==
    LET entries == getAllEntries(s) IN
    IF entries.kind = "null" THEN [res |-> "raise", count |-> 0]
    ELSE LET datesWithEntries ==
                 IF entries.kind = "object" THEN SortKeys(KeysWithEntries(entries.val))
                 ELSE <<>>
         IN  IF Len(datesWithEntries) = 0 THEN [res |-> "value", count |-> 0]
             ELSE IF Len(datesWithEntries) = 1 THEN [res |-> "value", count |-> 1]
             ELSE [res |-> "value",
                   count |-> LongestFrom(zone, datesWithEntries, 2, 1, 1)]

\* getDaysWithEntriesCount(): the number of keys whose value is a non-empty
\* array. Object.keys of a stored null throws; a number has no keys.
getDaysWithEntriesCount(s) ==
    LET entries == getAllEntries(s) IN
    IF entries.kind = "null" THEN [res |-> "raise", count |-> 0]
    ELSE IF entries.kind = "object"
         THEN [res |-> "value", count |-> Len(KeysWithEntries(entries.val))]
    ELSE [res |-> "value", count |-> 0]

\* -------------------------------------------------------------- frequency
UpperCase ==
    <<"A", "B", "C", "D", "E", "F", "G", "H", "I", "J", "K", "L", "M", "N", "O", "P", "Q", "R", "S", "T", "U", "V", "W", "X", "Y", "Z">>

LowerCase ==
    <<"a", "b", "c", "d", "e", "f", "g", "h", "i", "j", "k", "l", "m", "n", "o", "p", "q", "r", "s", "t", "u", "v", "w", "x", "y", "z">>

IsUpper(c) == \E i \in 1..Len(UpperCase) : UpperCase[i] = c

IsLower(c) == \E i \in 1..Len(LowerCase) : LowerCase[i] = c

\* String.prototype.toLowerCase on the characters of the model.
ToLowerCase(str) ==
    [i \in 1..Len(str) |->
        IF IsUpper(str[i])
        THEN LowerCase[CHOOSE j \in 1..Len(UpperCase) : UpperCase[j] = str[i]]
        ELSE str[i]]

\* The class \w: letters, digits and the underscore.
IsWordChar(c) == IsUpper(c) \/ IsLower(c) \/ IsDigit(c) \/ c = "_"

\* replace(/[^\w\s]/g, ' ')
ReplacePunctuation(str) ==
    [i \in 1..Len(str) |->
        IF IsWordChar(str[i]) \/ IsWhitespace(str[i]) THEN str[i] ELSE SP]

\* split(/\s+/) from position i with the piece cur being collected: every
\* maximal run of whitespace separates two pieces, so whitespace at either
\* end leaves an empty piece there.
RECURSIVE SplitWhitespaceFrom(_, _, _)
SplitWhitespaceFrom(str, i, cur) ==
    IF i > Len(str) THEN <<cur>>
    ELSE IF IsWhitespace(str[i])
         THEN IF i > 1 /\ IsWhitespace(str[i - 1])
              THEN SplitWhitespaceFrom(str, i + 1, cur)
              ELSE <<cur>> \o SplitWhitespaceFrom(str, i + 1, <<>>)
    ELSE SplitWhitespaceFrom(str, i + 1, Append(cur, str[i]))

SplitWhitespace(str) == SplitWhitespaceFrom(str, 1, <<>>)

stopWords ==
    { <<"t", "h", "e">>, <<"a">>, <<"a", "n">>, <<"a", "n", "d">>,
      <<"o", "r">>, <<"b", "u", "t">>, <<"f", "o", "r">>,
      <<"w", "i", "t", "h">>, <<"t", "o">>, <<"o", "f">>, <<"i", "n">>,
      <<"o", "n">>, <<"a", "t">>, <<"i", "s">>, <<"a", "r", "e">>,
      <<"w", "a", "s">>, <<"w", "e", "r", "e">>, <<"b", "e">>,
      <<"b", "e", "e", "n">>, <<"h", "a", "v", "e">>, <<"h", "a", "s">>,
      <<"h", "a", "d">>, <<"d", "o">>, <<"d", "o", "e", "s">>,
      <<"d", "i", "d">>, <<"w", "i", "l", "l">>, <<"w", "o", "u", "l", "d">>,
      <<"c", "o", "u", "l", "d">>, <<"s", "h", "o", "u", "l", "d">>,
      <<"m", "a", "y">>, <<"m", "i", "g", "h", "t">>, <<"c", "a", "n">>,
      <<"t", "h", "i", "s">>, <<"t", "h", "a", "t">>,
      <<"t", "h", "e", "s", "e">>, <<"t", "h", "o", "s", "e">>, <<"i">>,
      <<"y", "o", "u">>, <<"h", "e">>, <<"s", "h", "e">>, <<"i", "t">>,
      <<"w", "e">>, <<"t", "h", "e", "y">>, <<"m", "y">>,
      <<"y", "o", "u", "r">>, <<"h", "i", "s">>, <<"h", "e", "r">>,
      <<"i", "t", "s">>, <<"o", "u", "r">>, <<"t", "h", "e", "i", "r">>,
      <<"m", "e">>, <<"h", "i", "m">>, <<"u", "s">>, <<"t", "h", "e", "m">>,
      <<"a", "m">>, <<"s", "o">>, <<"i", "f">>, <<"a", "s">>, <<"u", "p">>,
      <<"o", "u", "t">>, <<"o", "f", "f">>, <<"o", "v", "e", "r">>,
      <<"u", "n", "d", "e", "r">>, <<"a", "g", "a", "i", "n">>,
      <<"t", "h", "e", "n">>, <<"t", "h", "a", "n">>, <<"w", "h", "e", "n">>,
      <<"w", "h", "e", "r", "e">>, <<"w", "h", "y">>, <<"h", "o", "w">>,
      <<"a", "l", "l">>, <<"e", "a", "c", "h">>, <<"b", "o", "t", "h">>,
      <<"f", "e", "w">>, <<"m", "o", "r", "e">>, <<"m", "o", "s", "t">>,
      <<"o", "t", "h", "e", "r">>, <<"s", "o", "m", "e">>,
      <<"s", "u", "c", "h">>, <<"n", "o">>, <<"n", "o", "r">>,
      <<"n", "o", "t">>, <<"o", "n", "l", "y">>, <<"o", "w", "n">>,
      <<"s", "a", "m", "e">>, <<"v", "e", "r", "y">>, <<"w", "h", "a", "t">>,
      <<"w", "h", "i", "c", "h">>, <<"w", "h", "o">>, <<"w", "h", "o", "m">>,
      <<"w", "h", "o", "s", "e">>, <<"a", "b", "o", "u", "t">>,
      <<"i", "n", "t", "o">>, <<"t", "h", "r", "o", "u", "g", "h">>,
      <<"d", "u", "r", "i", "n", "g">>, <<"b", "e", "f", "o", "r", "e">>,
      <<"a", "f", "t", "e", "r">>, <<"a", "b", "o", "v", "e">>,
      <<"b", "e", "l", "o", "w">>, <<"b", "e", "t", "w", "e", "e", "n">>,
      <<"a", "m", "o", "n", "g">>, <<"a", "r", "o", "u", "n", "d">>,
      <<"a", "g", "a", "i", "n", "s", "t">>, <<"a", "l", "o", "n", "g">>,
      <<"a", "c", "r", "o", "s", "s">>, <<"b", "e", "h", "i", "n", "d">>,
      <<"b", "e", "y", "o", "n", "d">>, <<"w", "i", "t", "h", "i", "n">>,
      <<"w", "i", "t", "h", "o", "u", "t">>,
      <<"t", "h", "r", "o", "u", "g", "h", "o", "u", "t">>,
      <<"t", "o", "w", "a", "r", "d">>,
      <<"t", "o", "w", "a", "r", "d", "s">>, <<"u", "p", "o", "n">> }

\* The shortest token that is counted.
MinWordLength == 3

\* The words of one entry that are counted.
WordsOf(entry) ==
    LET Keep(word) == Len(word) >= MinWordLength /\ word \notin stopWords
    IN  SelectSeq(SplitWhitespace(ReplacePunctuation(ToLowerCase(entry))), Keep)

\* The two names that the empty object literal inherits from
\* Object.prototype and that are their own lower-cased form.
ConstructorName == <<"c", "o", "n", "s", "t", "r", "u", "c", "t", "o", "r">>

ProtoName == <<"_", "_", "p", "r", "o", "t", "o", "_", "_">>

\* A count is a number n, or (num FALSE) the string that the inherited
\* function becomes when 1 is added to it, n times.
Number(n) == [num |-> TRUE, n |-> n]

\* counts[key] = (counts[key] || 0) + 1 on an object created by {}: an own
\* property is incremented (a string gets "1" appended); constructor reads
\* the inherited function, which is truthy, and function + 1 is a string;
\* __proto__ reads the prototype object and the assignment of a string to
\* __proto__ is ignored.
Increment(counts, key) ==
    IF key = ProtoName THEN counts
    ELSE IF HasKey(counts, key)
         THEN LET old == Get(counts, key)
              IN  Put(counts, key, [old EXCEPT !.n = old.n + 1])
    ELSE IF key = ConstructorName THEN Put(counts, key, [num |-> FALSE, n |-> 1])
    ELSE Put(counts, key, Number(1))

RECURSIVE IncrementAll(_, _)
IncrementAll(counts, keys) ==
    IF keys = <<>> THEN counts
    ELSE IncrementAll(Increment(counts, Head(keys)), Tail(keys))

\* Object.values(entries), the lists of all days in one sequence.
RECURSIVE AllEntries(_)
AllEntries(obj) ==
    IF obj = <<>> THEN <<>> ELSE Head(obj).v \o AllEntries(Tail(obj))

\* The keys counted by getMostFrequentEntries, in the order of the loop.
RECURSIVE NormalizedOf(_)
NormalizedOf(list) ==
    IF list = <<>> THEN <<>>
    ELSE LET normalized == ToLowerCase(Trim(Head(list)))
         IN  (IF normalized # <<>> THEN <<normalized>> ELSE <<>>)
             \o NormalizedOf(Tail(list))

\* The keys counted by getMostFrequentWords, in the order of the loops.
RECURSIVE WordsOfAll(_)
WordsOfAll(list) ==
    IF list = <<>> THEN <<>> ELSE WordsOf(Head(list)) \o WordsOfAll(Tail(list))

\* A property name that is an array index ("0", "7", "123": a canonical
\* number below 2^32 - 1) is enumerated before all other names.
MaxIndexDigits == 9

IsArrayIndex(key) ==
    /\ Len(key) >= 1
    /\ Len(key) <= MaxIndexDigits
    /\ \A i \in 1..Len(key) : IsDigit(key[i])
    /\ Len(key) > 1 => key[1] # "0"

RECURSIVE IndexValue(_)
IndexValue(key) ==
    IF key = <<>> THEN 0
    ELSE 10 * IndexValue(SubSeq(key, 1, Len(key) - 1)) + DigitValue(key[Len(key)])

RECURSIVE InsertByIndex(_, _)
InsertByIndex(sorted, p) ==
    IF sorted = <<>> THEN <<p>>
    ELSE IF IndexValue(Head(sorted).k) < IndexValue(p.k)
         THEN <<Head(sorted)>> \o InsertByIndex(Tail(sorted), p)
    ELSE <<p>> \o sorted

RECURSIVE SortByIndex(_)
SortByIndex(props) ==
    IF props = <<>> THEN <<>>
    ELSE InsertByIndex(SortByIndex(SubSeq(props, 1, Len(props) - 1)),
                       props[Len(props)])

\* Object.entries(counts): array indices in ascending numeric order, then
\* the other names in the order they were added.
ObjectEntries(counts) ==
    LET IsIndex(p) == IsArrayIndex(p.k)
        IsName(p) == ~IsArrayIndex(p.k)
    IN  SortByIndex(SelectSeq(counts, IsIndex)) \o SelectSeq(counts, IsName)

\* sort((a, b) => b.count - a.count) when every count is a number: the sort
\* is stable, an item goes behind all items whose count is not smaller.
RECURSIVE InsertByCount(_, _)
InsertByCount(sorted, p) ==
    IF sorted = <<>> THEN <<p>>
    ELSE IF Head(sorted).v.n >= p.v.n
         THEN <<Head(sorted)>> \o InsertByCount(Tail(sorted), p)
    ELSE <<p>> \o sorted

RECURSIVE SortByCount(_)
SortByCount(props) ==
    IF props = <<>> THEN <<>>
    ELSE InsertByCount(SortByCount(SubSeq(props, 1, Len(props) - 1)),
                       props[Len(props)])

Orderings(props) ==
    LET n == Len(props)
        bijections == {f \in [1..n -> 1..n] : \A i, j \in 1..n : f[i] = f[j] => i = j}
    IN  {[i \in 1..n |-> props[f[i]]] : f \in bijections}

\* The comparator gives NaN, read as 0, against a count that is not a
\* number. It is a consistent comparator only if the numbers are then all
\* equal; otherwise the order of the sorted array is implementation-defined.
SortOutcomes(props) ==
    LET numbers == {props[i].v.n : i \in {j \in 1..Len(props) : props[j].v.num}}
    IN  IF \A i \in 1..Len(props) : props[i].v.num THEN {SortByCount(props)}
        ELSE IF Cardinality(numbers) <= 1 THEN {props}
        ELSE Orderings(props)

\* slice(0, limit) for a limit that is not negative.
Slice(seq, limit) == SubSeq(seq, 1, IF limit < Len(seq) THEN limit ELSE Len(seq))

\* The possible results of the sort and the slice for the counts.
Ranks(counts, limit) ==
    {[res |-> "value", rank |-> Slice(sorted, limit)] :
        sorted \in SortOutcomes(ObjectEntries(counts))}

\* getMostFrequentEntries(limit): the set of results the call can have.
\* Object.values of a stored null throws; a number has no values.
getMostFrequentEntries(s, limit) ==
    LET entries == getAllEntries(s) IN
    IF entries.kind = "null" THEN {[res |-> "raise", rank |-> <<>>]}
    ELSE LET values == IF entries.kind = "object" THEN AllEntries(entries.val)
                       ELSE <<>>
             entryCounts == IncrementAll(EmptyObject, NormalizedOf(values))
         IN  Ranks(entryCounts, limit)

\* getMostFrequentWords(limit): the set of results the call can have.
getMostFrequentWords(s, limit) ==
    LET entries == getAllEntries(s) IN
    IF entries.kind = "null" THEN {[res |-> "raise", rank |-> <<>>]}
    ELSE LET values == IF entries.kind = "object" THEN AllEntries(entries.val)
                       ELSE <<>>
             wordCounts == IncrementAll(EmptyObject, WordsOfAll(values))
         IN  Ranks(wordCounts, limit)

\* ------------------------------------------------ frequency specification
\* The two frequency functions applied to every store of up to MaxTexts
\* entries on two dates, the later date possibly stored first.
FrequencyTexts ==
    { <<"C", "o", "f", "f", "e", "e">>,
      <<"c", "o", "f", "f", "e", "e", SP>>,
      <<"T", "e", "a">>,
      <<"1", "2", "3">>,
      <<"a", "n", SP, "O", "l", "d", COMMA, "t", "e", "a", SP, "t", "h", "e">>,
      ConstructorName }

Limits == {1, 2}

\* The stores holding the entries of a sequence of (date, text) pairs in
\* that order.
RECURSIVE ObjectOfPairs(_)
ObjectOfPairs(pairs) ==
    IF pairs = <<>> THEN EmptyObject
    ELSE LET obj == ObjectOfPairs(SubSeq(pairs, 1, Len(pairs) - 1))
             p == pairs[Len(pairs)]
         IN  Put(obj, p[1], (IF HasKey(obj, p[1]) THEN Get(obj, p[1]) ELSE <<>>)
                                \o <<p[2]>>)

FrequencySlots ==
    {JsObject(ObjectOfPairs(pairs)) :
        pairs \in UNION {[1..n -> DateKeys \X FrequencyTexts] : n \in 0..MaxTexts}}

InitFrequency ==
    /\ slot \in FrequencySlots
    /\ storageOk = TRUE
    /\ pending = {}
    /\ last = NoCall

CallGetMostFrequentEntries(limit) ==
    \E r \in getMostFrequentEntries(slot, limit) :
        /\ last' = [NoCall EXCEPT !.op = "frequentEntries", !.pre = slot,
                                  !.limit = limit, !.res = r.res, !.rank = r.rank]
        /\ UNCHANGED <<slot, storageOk, pending>>

CallGetMostFrequentWords(limit) ==
    \E r \in getMostFrequentWords(slot, limit) :
        /\ last' = [NoCall EXCEPT !.op = "frequentWords", !.pre = slot,
                                  !.limit = limit, !.res = r.res, !.rank = r.rank]
        /\ UNCHANGED <<slot, storageOk, pending>>

NextFrequency ==
    \/ \E limit \in Limits : CallGetMostFrequentEntries(limit)
    \/ \E limit \in Limits : CallGetMostFrequentWords(limit)

SpecFrequency == InitFrequency /\ [][NextFrequency]_vars

\* ---------------------------------------------------- codec specification
\* The export of a row and the parse of an exported row, applied once to a
\* field drawn at the start, and the parse of a file content, applied once
\* to a file drawn at the start. In last, op says what is waiting ("field"
\* or "file"), text is the field or the content and list the lines of the
\* file.
CodecChars == {"a", SP, COMMA, QUOTE, NL}

CodecFields ==
    UNION {[1..n -> CodecChars] : n \in 0..MaxFieldLen}
        \cup {<<"a", COMMA, "b", QUOTE, "c">>}

\* Data lines: rows that are accepted (one padded with blanks, one with a
\* date no calendar has) and rows that are not.
SlashDate == <<"2", "0", "2", "5", "/", "0", "1", "/", "0", "1">>

CodecLines ==
    { D1 \o <<COMMA, "a">>,
      D1 \o <<COMMA, "b">>,
      D2 \o <<COMMA, "a">>,
      <<SP>> \o D1 \o <<SP, COMMA, SP, "a", SP>>,
      UnrealDate \o <<COMMA, "a">>,
      SlashDate \o <<COMMA, "a">>,
      <<COMMA, "a">>,
      D1,
      D1 \o <<COMMA, SP>>,
      <<>> }

FirstLines == {Header, D1 \o <<COMMA, "a">>}

CodecFiles ==
    {<<first>> \o rows :
        first \in FirstLines,
        rows \in UNION {[1..n -> CodecLines] : n \in 0..MaxRows}}

CodecInputs ==
    {[NoCall EXCEPT !.op = "field", !.text = field] : field \in CodecFields}
        \cup {[NoCall EXCEPT !.op = "file", !.text = Join(lines, <<NL>>),
                             !.list = lines] :
                 lines \in CodecFiles}

InitCodec ==
    /\ slot = AbsentSlot
    /\ storageOk = TRUE
    /\ pending = {}
    /\ last \in CodecInputs

\* The row [D1, text] of the export.
CallExportRow ==
    /\ last.op = "field"
    /\ last' = [last EXCEPT !.op = "exportRow", !.res = "value",
                            !.csv = ExportRow(<<D1, last.text>>)]
    /\ UNCHANGED <<slot, storageOk, pending>>

\* parseCSVLine on the exported row [D1, text].
CallParseExportedRow ==
    /\ last.op = "field"
    /\ last' = [last EXCEPT !.op = "parseExportedRow", !.res = "value",
                            !.csv = ExportRow(<<D1, last.text>>),
                            !.row = parseCSVLine(ExportRow(<<D1, last.text>>))]
    /\ UNCHANGED <<slot, storageOk, pending>>

\* parseCSV on the text, and the count the import reports for its result.
CallParseCSV ==
    LET importedEntries == parseCSV(last.text) IN
    /\ last.op = "file"
    /\ last' = [last EXCEPT !.op = "parseCSV", !.res = "value",
                            !.imp = importedEntries,
                            !.count = importedCount(importedEntries)]
    /\ UNCHANGED <<slot, storageOk, pending>>

NextCodec ==
    \/ CallExportRow
    \/ CallParseExportedRow
    \/ CallParseCSV

SpecCodec == InitCodec /\ [][NextCodec]_vars

\* --------------------------------------------------- streak specification
\* The streak functions applied to stores over a window of days, for every
\* set of days with entries, every today in or right after the window, and
\* a zone without and a zone with clock changes.
WindowStarts == {DaysFromCivil(2024, 12, 31), DaysFromCivil(2025, 3, 7)}

WindowDays(start) == start..(start + StreakWindow - 1)

Todays == UNION {start..(start + StreakWindow) : start \in WindowStarts}

UTC == <<>>

\* America/New_York in 2025: clocks go forward on 9 March and back on
\* 2 November.
NewYork ==
    << [day |-> DaysFromCivil(2025, 3, 9), len |-> 23],
       [day |-> DaysFromCivil(2025, 11, 2), len |-> 25] >>

Zones == {UTC, NewYork}

\* The object with one entry on each of the days, the latest day added
\* first.
RECURSIVE ObjectOfDays(_)
ObjectOfDays(days) ==
    IF days = {} THEN EmptyObject
    ELSE LET latest == CHOOSE d \in days : \A e \in days : e <= d
         IN  <<[k |-> formatDate(latest), v |-> <<<<"a">>>>]>>
             \o ObjectOfDays(days \ {latest})

StreakSlots ==
    {JsObject(ObjectOfDays(days)) :
        days \in UNION {SUBSET WindowDays(start) : start \in WindowStarts}}

InitStreak ==
    /\ slot \in StreakSlots
    /\ storageOk = TRUE
    /\ pending = {}
    /\ last = NoCall

CallCalculateStreak(today) ==
    LET r == calculateStreak(slot, today) IN
    /\ last' = [NoCall EXCEPT !.op = "streak", !.pre = slot, !.today = today,
                              !.res = r.res, !.count = r.count]
    /\ UNCHANGED <<slot, storageOk, pending>>

CallCalculateLongestStreak(zone) ==
    LET r == calculateLongestStreak(slot, zone) IN
    /\ last' = [NoCall EXCEPT !.op = "longest", !.pre = slot, !.zone = zone,
                              !.res = r.res, !.count = r.count]
    /\ UNCHANGED <<slot, storageOk, pending>>

NextStreak ==
    \/ \E today \in Todays : CallCalculateStreak(today)
    \/ \E zone \in Zones : CallCalculateLongestStreak(zone)

SpecStreak == InitStreak /\ [][NextStreak]_vars

\* --------------------------------------------------- readers specification
\* The five functions that only read, applied in any order to a store: one
\* with entries on some days of a window, one with a single entry of the
\* frequency texts, or a slot that holds no entries object.
ReaderSlots ==
    StreakSlots
        \cup {JsObject(ObjectOfPairs(<<p>>)) : p \in DateKeys \X FrequencyTexts}
        \cup SlotContents

InitReaders ==
    /\ slot \in ReaderSlots
    /\ storageOk = TRUE
    /\ pending = {}
    /\ last = NoCall

NextReaders ==
    \/ \E today \in Todays : CallCalculateStreak(today)
    \/ \E zone \in Zones : CallCalculateLongestStreak(zone)
    \/ \E limit \in Limits : CallGetMostFrequentEntries(limit)
    \/ \E limit \in Limits : CallGetMostFrequentWords(limit)
    \/ CallExportToCSV

SpecReaders == InitReaders /\ [][NextReaders]_vars

\* ------------------------------------------------------ form specification
\* The Today form: three inputs and the inputs added with "add another". A
\* form is the sequence of their values in document order.
\* items.filter(item => item.length > 0) over the trimmed values; the three
\* base values are collected first, then the non-empty additional ones.
RECURSIVE NonEmptyItems(_)
NonEmptyItems(values) ==
    IF values = <<>> THEN <<>>
    ELSE (IF Trim(Head(values)) # <<>> THEN <<Trim(Head(values))>> ELSE <<>>)
         \o NonEmptyItems(Tail(values))

\* nonEmptyItems.forEach(item => { if (addEntry(today, item)) successCount++ })
\* An addEntry that throws ends the handler there.
RECURSIVE AddEach(_, _, _, _, _)
AddEach(s, today, items, ok, successCount) ==
    IF items = <<>> THEN [slot |-> s, threw |-> FALSE, successCount |-> successCount]
    ELSE LET r == addEntry(s, today, Head(items), ok) IN
         IF r.res = "raise"
         THEN [slot |-> r.slot, threw |-> TRUE, successCount |-> successCount]
         ELSE AddEach(r.slot, today, Tail(items), ok,
                      IF r.res = "true" THEN successCount + 1 ELSE successCount)

\* handleFormSubmit accepting a single non-empty item.
handleFormSubmit_anyItem(s, form, today, ok) ==
    LET nonEmptyItems == NonEmptyItems(form) IN
    IF Len(nonEmptyItems) = 0
    THEN [slot |-> s, res |-> "nothing", count |-> 0, form |-> form]
    ELSE LET r == AddEach(s, today, nonEmptyItems, ok, 0) IN
         IF r.threw
         THEN [slot |-> r.slot, res |-> "raise", count |-> r.successCount, form |-> form]
         ELSE IF r.successCount > 0
         THEN [slot |-> r.slot, res |-> "added", count |-> r.successCount,
               form |-> << <<>>, <<>>, <<>> >>]
         ELSE [slot |-> r.slot, res |-> "error", count |-> 0, form |-> form]

\* handleFormSubmit on the day whose date string is today. res is "nothing"
\* or "tooFew" (the two error notifications before any write), "added",
\* "error" (no addEntry returned true) or "raise" (an addEntry threw). After
\* "added" the three base inputs are emptied and the additional ones removed.
handleFormSubmit(s, form, today, ok) ==
    LET nonEmptyItems == NonEmptyItems(form) IN
    IF Len(nonEmptyItems) = 0
    THEN [slot |-> s, res |-> "nothing", count |-> 0, form |-> form]
    ELSE IF Len(nonEmptyItems) < 3
    THEN [slot |-> s, res |-> "tooFew", count |-> 0, form |-> form]
    ELSE LET r == AddEach(s, today, nonEmptyItems, ok, 0) IN
         IF r.threw
         THEN [slot |-> r.slot, res |-> "raise", count |-> r.successCount, form |-> form]
         ELSE IF r.successCount > 0
         THEN [slot |-> r.slot, res |-> "added", count |-> r.successCount,
               form |-> << <<>>, <<>>, <<>> >>]
         ELSE [slot |-> r.slot, res |-> "error", count |-> 0, form |-> form]

\* What a user types into one input.
FormTexts == { <<>>, <<SP>>, <<SP, "a">>, <<"b">>, <<"c", SP>> }

\* The forms: three base inputs and up to MaxExtraFields additional ones.
RECURSIVE FormsOfLength(_)
FormsOfLength(n) ==
    IF n = 0 THEN {<<>>}
    ELSE {Append(f, t) : f \in FormsOfLength(n - 1), t \in FormTexts}

Forms == UNION {FormsOfLength(3 + extra) : extra \in 0..MaxExtraFields}

\* The form is filled in on a day; key is that day's date string. Nothing
\* is stored yet, or one entry on the first day.
InitForm ==
    /\ slot \in {AbsentSlot, JsObject(<<[k |-> D1, v |-> <<<<"b">>>>]>>)}
    /\ storageOk = TRUE
    /\ pending = {}
    /\ \E form \in Forms, today \in DateKeys :
           last = [NoCall EXCEPT !.op = "form", !.form = form, !.key = today]

\* The submit event of the Today form.
SubmitForm ==
    LET r == handleFormSubmit(slot, last.form, last.key, storageOk) IN
    /\ slot' = r.slot
    /\ last' = [NoCall EXCEPT !.op = "submit", !.key = last.key, !.fields = last.form,
                              !.form = r.form, !.ok = storageOk, !.pre = slot,
                              !.res = r.res, !.count = r.count]
    /\ UNCHANGED <<storageOk, pending>>

NextForm ==
    \/ StorageChange
    \/ SubmitForm

SpecForm == InitForm /\ [][NextForm]_vars

\* -------------------------------------------------- calendar specification
\* The calendar view. currentCalendarMonth is always the first day of a
\* month once the view is open; it is kept as year * 12 + getMonth().
MonthIndex(y, m) == y * 12 + m

MonthOfDay(day) == MonthIndex(CivilFromDays(day).y, CivilFromDays(day).m - 1)

\* new Date(year, month, 1) of a month index.
FirstDayOfMonth(monthIndex) == DaysFromCivil(monthIndex \div 12, (monthIndex % 12) + 1, 1)

\* getTodayDateString() when the clock shows the day.
getTodayDateString(day) == formatDate(day)

getPreviousDay(dateString) == formatDate(DayOfDateString(dateString) - 1)

getNextDay(dateString) == formatDate(DayOfDateString(dateString) + 1)

\* a > b for two date strings (digits and '-' in the same places).
StringGreater(a, b) == ~LocaleLessEq(a, b)

\* getCalendarStartDate and getCalendarGridDates: the 42 days from the
\* Sunday on or before the first of the month. getDay() is 0 on a Sunday
\* (1970-01-01 was a Thursday).
getCalendarGridDates(monthIndex) ==
    LET firstDay == FirstDayOfMonth(monthIndex)
        dayOfWeek == (firstDay + 4) % 7
        startDate == firstDay - dayOfWeek
    IN  startDate..(startDate + 41)

\* The days the model navigates among, the days the clock shows, and the
\* months and years the picker offers.
FirstToday == DaysFromCivil(2024, 12, 31)

CalendarDays == (FirstToday - 2)..(FirstToday - 3 + CalendarWindow)

PickerYears == {2024, 2025}

PickerMonths == {0, 1, 11}

CalendarMonths == {MonthIndex(y, m) : y \in PickerYears, m \in PickerMonths}

\* The calendar state after a handler named op left the date and the month
\* shown as given.
Shown(op, dateString, monthIndex) ==
    [NoCall EXCEPT !.op = op, !.key = dateString, !.month = monthIndex,
                   !.today = last.today, !.pre = slot]

\* updateCalendarView(dateString): the date becomes the selected one and
\* the month shown the month that contains it.
updateCalendarView(op, dateString) ==
    Shown(op, dateString, MonthOfDay(DayOfDateString(dateString)))

\* The app is loaded and the calendar view opened on the first day.
InitCalendar ==
    /\ slot = AbsentSlot
    /\ storageOk = TRUE
    /\ pending = {}
    /\ last = [NoCall EXCEPT !.op = "switchView", !.today = FirstToday,
                             !.key = getTodayDateString(FirstToday),
                             !.month = MonthOfDay(FirstToday)]

\* Midnight passes.
Midnight ==
    /\ last.today < FirstToday + MaxMidnights
    /\ last' = [last EXCEPT !.today = last.today + 1]
    /\ UNCHANGED <<slot, storageOk, pending>>

\* switchView('calendar'): the view is opened again.
switchView ==
    /\ last' = updateCalendarView("switchView", getTodayDateString(last.today))
    /\ UNCHANGED <<slot, storageOk, pending>>

\* A click on a day of the grid. Days later than today are rendered
\* disabled and with data-future="true".
ClickCalendarDay(day) ==
    LET dateString == formatDate(day)
        isFuture == StringGreater(dateString, getTodayDateString(last.today))
    IN  /\ day \in getCalendarGridDates(last.month)
        /\ ~isFuture
        /\ last' = updateCalendarView("dayClick", dateString)
        /\ UNCHANGED <<slot, storageOk, pending>>

\* The previous-month and next-month buttons change the month shown only.
ClickPrevMonth ==
    /\ last.month - 1 \in CalendarMonths
    /\ last' = Shown("prevMonth", last.key, last.month - 1)
    /\ UNCHANGED <<slot, storageOk, pending>>

ClickNextMonth ==
    /\ last.month + 1 \in CalendarMonths
    /\ last' = Shown("nextMonth", last.key, last.month + 1)
    /\ UNCHANGED <<slot, storageOk, pending>>

selectYear(year) ==
    /\ last' = Shown("selectYear", last.key, MonthIndex(year, last.month % 12))
    /\ UNCHANGED <<slot, storageOk, pending>>

\* selectMonth(month): the first day of the month in the year shown, or
\* today when that day is later than today.
selectMonth(month) ==
    LET firstDayString == formatDate(FirstDayOfMonth(MonthIndex(last.month \div 12, month)))
        today == getTodayDateString(last.today)
        dateToSelect == IF StringGreater(firstDayString, today) THEN today
                        ELSE firstDayString
    IN  /\ last' = updateCalendarView("selectMonth", dateToSelect)
        /\ UNCHANGED <<slot, storageOk, pending>>

\* The previous-day button, or a swipe to the right.
navigateToPreviousDay ==
    /\ DayOfDateString(getPreviousDay(last.key)) \in CalendarDays
    /\ last' = updateCalendarView("previousDay", getPreviousDay(last.key))
    /\ UNCHANGED <<slot, storageOk, pending>>

\* The next-day button, or a swipe to the left.
navigateToNextDay ==
    /\ DayOfDateString(getNextDay(last.key)) \in CalendarDays
    /\ last' = updateCalendarView("nextDay", getNextDay(last.key))
    /\ UNCHANGED <<slot, storageOk, pending>>

\* The change event of the date picker with the date it holds.
ChangeDatePicker(day) ==
    /\ last' = updateCalendarView("datePicker", formatDate(day))
    /\ UNCHANGED <<slot, storageOk, pending>>

\* The Today button.
navigateToToday ==
    /\ last' = updateCalendarView("today", getTodayDateString(last.today))
    /\ UNCHANGED <<slot, storageOk, pending>>

\* handleCalendarFormSubmit: every non-empty item is added under
\* currentCalendarDate. The form is shown while the date has no entries.
handleCalendarFormSubmit(form) ==
    LET items == NonEmptyItems(form)
        selectedDate == last.key
        r == AddEach(slot, selectedDate, items, storageOk, 0)
    IN  /\ getEntriesByDate(slot, selectedDate).list = <<>>
        /\ TotalCount(getAllEntries(r.slot).val) <= MaxEntries
        /\ IF Len(items) = 0
           THEN /\ last' = [Shown("calendarSubmit", last.key, last.month)
                               EXCEPT !.fields = form, !.res = "nothing"]
                /\ UNCHANGED slot
           ELSE /\ slot' = r.slot
                /\ last' = [(IF r.successCount > 0 /\ ~r.threw
                             THEN updateCalendarView("calendarSubmit", selectedDate)
                             ELSE Shown("calendarSubmit", last.key, last.month))
                               EXCEPT !.fields = form, !.count = r.successCount,
                                      !.res = IF r.threw THEN "raise"
                                              ELSE IF r.successCount > 0 THEN "added"
                                              ELSE "error"]
        /\ UNCHANGED <<storageOk, pending>>

NextCalendar ==
    \/ Midnight
    \/ switchView
    \/ \E day \in CalendarDays : ClickCalendarDay(day)
    \/ ClickPrevMonth
    \/ ClickNextMonth
    \/ \E year \in PickerYears : selectYear(year)
    \/ \E month \in PickerMonths : selectMonth(month)
    \/ navigateToPreviousDay
    \/ navigateToNextDay
    \/ \E day \in CalendarDays : ChangeDatePicker(day)
    \/ navigateToToday
    \/ \E form \in { << <<SP, "a">>, <<>>, <<SP>> >>, << <<SP>>, <<>>, <<>> >> } :
          handleCalendarFormSubmit(form)

SpecCalendar == InitCalendar /\ [][NextCalendar]_vars

\* ------------------------------------------------------------ properties
\* The mapping the slot holds as the store sees it, before and after the
\* last call.
StoreBefore == getAllEntries(last.pre).val
StoreNow == getAllEntries(slot).val

\* Every key but k has the same list (or is absent) in both objects.
SameElsewhere(a, b, k) ==
    \A d \in (ObjectKeys(a) \cup ObjectKeys(b)) \ {k} :
        /\ HasKey(a, d) <=> HasKey(b, d)
        /\ ListOf(a, d) = ListOf(b, d)

\* C1: an add with a text that is non-empty after trimming returns true
\* (unless the write fails), and then the key's list is the list it had
\* before with the trimmed text appended, every other key's list unchanged.
C1_AddAppendsTrimmed ==
    (last.op = "add" /\ Trim(last.text) # <<>>) =>
        /\ last.ok => last.res = "true"
        /\ last.res = "true" =>
              /\ getEntriesByDate(slot, last.key).list
                    = Append(ListOf(StoreBefore, last.key), Trim(last.text))
              /\ SameElsewhere(StoreBefore, StoreNow, last.key)

\* An add that appended to a list that existed, with a text that needed
\* trimming.
C1_Witness ==
    /\ last.op = "add"
    /\ last.res = "true"
    /\ last.text # Trim(last.text)
    /\ Len(ListOf(StoreBefore, last.key)) >= 1
    /\ Len(ListOf(StoreNow, last.key)) = Len(ListOf(StoreBefore, last.key)) + 1

\* C2: an add with an empty or whitespace-only text returns false and the
\* slot is what it was.
C2_AddRejectsBlank ==
    (last.op = "add" /\ Trim(last.text) = <<>>) =>
        /\ last.res = "false"
        /\ slot = last.pre

\* A whitespace-only add was refused on a store that has entries.
C2_Witness ==
    /\ last.op = "add"
    /\ last.text = <<SP>>
    /\ last.res = "false"
    /\ TotalCount(StoreNow) >= 1

\* The index is a position of the key's list in the store before the call.
IndexInRange == last.index >= 0 /\ last.index < Len(ListOf(StoreBefore, last.key))

\* C3: an update returns false and leaves the slot as it was when the new
\* text trims to empty, the key is absent, or the index is outside [0, len).
C3_UpdateRejects ==
    (/\ last.op = "update"
     /\ \/ Trim(last.text) = <<>>
        \/ ~HasKey(StoreBefore, last.key)
        \/ ~IndexInRange) =>
        /\ last.res = "false"
        /\ slot = last.pre

\* An update with a valid text at index = length of an existing list was
\* refused.
C3_Witness ==
    /\ last.op = "update"
    /\ Trim(last.text) # <<>>
    /\ HasKey(StoreBefore, last.key)
    /\ last.index = Len(ListOf(StoreBefore, last.key))
    /\ last.res = "false"

\* C4: a successful update sets position index of the key's list to the
\* trimmed text and changes nothing else: same length, same other elements,
\* same lists for the other keys.
C4_UpdateInPlace ==
    (last.op = "update" /\ last.res = "true") =>
        LET old == ListOf(StoreBefore, last.key)
            new == ListOf(StoreNow, last.key)
        IN  /\ IndexInRange
            /\ Len(new) = Len(old)
            /\ new[last.index + 1] = Trim(last.text)
            /\ \A i \in 1..Len(old) : i # last.index + 1 => new[i] = old[i]
            /\ SameElsewhere(StoreBefore, StoreNow, last.key)
            /\ ObjectKeys(StoreNow) = ObjectKeys(StoreBefore)

\* An update changed one element of a list of two and kept the other.
C4_Witness ==
    /\ last.op = "update"
    /\ last.res = "true"
    /\ last.text # Trim(last.text)
    /\ Len(ListOf(StoreBefore, last.key)) = 2
    /\ ListOf(StoreNow, last.key) # ListOf(StoreBefore, last.key)

\* The last call reached saveEntries: a valid add, a valid update, or the
\* onload of a file with accepted rows.
ReachedSave ==
    \/ last.op = "add" /\ Trim(last.text) # <<>>
    \/ last.op = "update" /\ Trim(last.text) # <<>>
          /\ HasKey(StoreBefore, last.key) /\ IndexInRange
    \/ last.op = "importLoad" /\ last.imp # EmptyObject

\* C5: when the storage write fails in add, update or the save of an
\* import, the call ends with an error (not true or false; the import
\* promise rejects) and the slot keeps its value.
C5_WriteFailureRaises ==
    (ReachedSave /\ ~last.ok) =>
        /\ last.res = (IF last.op = "importLoad" THEN "reject" ELSE "raise")
        /\ slot = last.pre

\* A valid add on a store with entries failed at the write.
C5_Witness ==
    /\ last.op = "add"
    /\ ~last.ok
    /\ last.res = "raise"
    /\ TotalCount(StoreBefore) >= 1
    /\ slot = last.pre

\* C6: the reads never raise, whatever the slot holds: getAllEntries gives a
\* mapping, empty unless the slot holds one; getEntriesByDate gives [] for a
\* key the mapping lacks; neither changes the slot.
C6_ReadsFailOpen ==
    /\ last.op = "getAll" =>
          /\ last.res = "value"
          /\ last.ret.kind = "object"
          /\ last.pre.kind # "object" => last.ret.val = EmptyObject
          /\ slot = last.pre
    /\ last.op = "getByDate" =>
          /\ last.res = "value"
          /\ (last.pre.kind # "object" \/ ~HasKey(last.pre.val, last.key))
                => last.list = <<>>
          /\ slot = last.pre

\* C7: an import that fails (the read fails, the file has no valid row, or
\* the write fails) rejects and leaves the slot as it was.
C7_FailedImportKeepsStore ==
    /\ last.op = "importError" => (last.res = "reject" /\ slot = last.pre)
    /\ (last.op = "importLoad" /\ (last.file = "header.csv" \/ ~last.ok)) =>
          (last.res = "reject" /\ slot = last.pre)
    /\ (last.op = "importLoad" /\ last.res = "reject") => slot = last.pre

\* The import of the header-only file was rejected on a store with entries.
C7_Witness ==
    /\ last.op = "importLoad"
    /\ last.file = "header.csv"
    /\ last.res = "reject"
    /\ TotalCount(StoreNow) >= 1

\* Two objects hold the same dates and the same list for each date.
SameMapping(a, b) ==
    /\ ObjectKeys(a) = ObjectKeys(b)
    /\ \A d \in ObjectKeys(a) : ListOf(a, d) = ListOf(b, d)

\* C8: parsing the export of the store and merging the result into an empty
\* store gives the store back: same dates, same entries in the same order.
C8_ExportImportRoundTrip ==
    SameMapping(mergeEntries(AbsentSlot, parseCSV(csvContent(StoreNow))).val,
                StoreNow)

\* The items at the positions idx, in ascending order of position.
RECURSIVE PickAscending(_, _)
PickAscending(items, idx) ==
    IF idx = {} THEN <<>>
    ELSE LET i == CHOOSE j \in idx : \A m \in idx : j <= m
         IN  <<items[i]>> \o PickAscending(items, idx \ {i})

\* The imported items that are new for a date: not in the existing list and
\* not a repetition of an earlier imported item.
NewItems(existing, items) ==
    PickAscending(items,
        {i \in 1..Len(items) :
            /\ ~Includes(existing, items[i])
            /\ \A j \in 1..(i - 1) : items[j] # items[i]})

\* The last call ran mergeEntries; last.ret is what it returned.
Merged ==
    \/ last.op = "merge"
    \/ last.op = "importLoad" /\ last.imp # EmptyObject

\* C9: for an imported date the store already has, the merged list is the
\* existing list followed by the imported entries, in import order, whose
\* exact string is not yet in the list.
C9_MergeAppendsNewOnly ==
    Merged =>
        \A d \in ObjectKeys(last.imp) :
            HasKey(StoreBefore, d) =>
                ListOf(last.ret.val, d)
                    = ListOf(StoreBefore, d)
                      \o NewItems(ListOf(StoreBefore, d), ListOf(last.imp, d))

\* An import onto a date that had entries added one imported entry (it
\* differs from the existing one at most in case) and skipped another.
C9_Witness ==
    /\ last.op = "importLoad"
    /\ last.res = "resolve"
    /\ \E d \in ObjectKeys(last.imp) :
          /\ HasKey(StoreBefore, d)
          /\ Len(ListOf(StoreNow, d)) > Len(ListOf(StoreBefore, d))
          /\ Len(ListOf(StoreNow, d))
                < Len(ListOf(StoreBefore, d)) + Len(ListOf(last.imp, d))

\* C10: mergeEntries writes nothing: after a call of it alone the slot is
\* what it was, and an import changes the slot only by saving what the
\* merge returned.
C10_MergeDoesNotPersist ==
    /\ last.op = "merge" => slot = last.pre
    /\ (last.op = "importLoad" /\ slot # last.pre) =>
          (last.res = "resolve" /\ slot = [kind |-> "object", val |-> last.ret.val])

\* mergeEntries returned a mapping that differs from the stored one, and the
\* slot still holds the stored one.
C10_Witness ==
    /\ last.op = "merge"
    /\ TotalCount(StoreBefore) >= 1
    /\ ~SameMapping(last.ret.val, StoreBefore)
    /\ slot = last.pre

\* The number of rows of each file that the parser accepts.
AcceptedRows(file) ==
    CASE file = "header.csv" -> 0
      [] file = "merge.csv" -> 2
      [] file = "mixed.csv" -> 1

\* C11: a successful import resolves with the number of rows the parser
\* accepted from the file, whatever the merge added to the store.
C11_CountIsAcceptedRows ==
    (last.op = "importLoad" /\ last.res = "resolve") =>
        /\ last.count = AcceptedRows(last.file)
        /\ last.count = TotalCount(last.imp)

\* An import whose rows were all in the store already: the store keeps its
\* content and the import reports the two rows of the file.
C11_Witness ==
    /\ last.op = "importLoad"
    /\ last.res = "resolve"
    /\ last.file = "merge.csv"
    /\ last.count = 2
    /\ TotalCount(StoreBefore) >= 1
    /\ SameMapping(StoreBefore, StoreNow)

\* The calendar days on which the store has at least one entry.
DaysWithEntries(obj) ==
    {DayOfDateString(obj[i].k) : i \in {j \in 1..Len(obj) : Len(obj[j].v) > 0}}

\* The length of the run of consecutive days with entries that ends on the
\* day end (0 when end has none).
RunEndingOn(days, end) ==
    CHOOSE n \in 0..Cardinality(days) :
        /\ \A i \in 0..(n - 1) : (end - i) \in days
        /\ (end - n) \notin days

Jan(d) == DaysFromCivil(2025, 1, d)

\* C12: the current streak is the run of days with entries that ends today
\* when today has an entry and yesterday when it has none; entries on
\* 01-01..01-03 give 3 on 01-04 and 0 on 01-05.
C12_CurrentStreak ==
    last.op = "streak" =>
        LET days == DaysWithEntries(StoreNow) IN
        /\ last.res = "value"
        /\ last.count = IF last.today \in days
                        THEN RunEndingOn(days, last.today)
                        ELSE RunEndingOn(days, last.today - 1)
        /\ days = {Jan(1), Jan(2), Jan(3)} =>
              /\ last.today = Jan(4) => last.count = 3
              /\ last.today = Jan(5) => last.count = 0

\* Entries on 2025-01-01..03 and none on 01-04, asked on 01-04: 3.
C12_Witness ==
    /\ last.op = "streak"
    /\ DaysWithEntries(StoreNow) = {Jan(1), Jan(2), Jan(3)}
    /\ last.today = Jan(4)
    /\ last.count = 3

\* The longest run of consecutive calendar days among the days.
LongestRun(days) ==
    IF days = {} THEN 0
    ELSE LET runs == {RunEndingOn(days, d) : d \in days}
         IN  CHOOSE n \in runs : \A m \in runs : m <= n

\* C13: the longest streak is the longest run of calendar-consecutive days
\* with entries, whatever the time zone does between them; 0 without
\* entries, 1 with one day, 3 for 01-01, 01-02, 01-03, 01-10.
C13_LongestStreak ==
    last.op = "longest" =>
        /\ last.res = "value"
        /\ last.count = LongestRun(DaysWithEntries(StoreNow))

\* The entries of the store in the order Object.values and forEach visit
\* them.
StoredTexts == AllEntries(StoreNow)

Occurrences(keys, key) == Cardinality({i \in 1..Len(keys) : keys[i] = key})

FirstSeen(keys, key) == CHOOSE i \in 1..Len(keys) : keys[i] = key /\ \A j \in 1..(i - 1) : keys[j] # key

\* The values counted by the call in last, in the order they are met.
ValuesMet ==
    IF last.op = "frequentEntries" THEN NormalizedOf(StoredTexts)
    ELSE WordsOfAll(StoredTexts)

\* Every value met was counted with a number.
AllCountsAreNumbers == \A i \in 1..Len(ValuesMet) : ValuesMet[i] # ConstructorName

CountDescendingTiesFirstSeen ==
    \A i, j \in 1..Len(last.rank) :
        i < j =>
            /\ last.rank[i].v.n >= last.rank[j].v.n
            /\ last.rank[i].v.n = last.rank[j].v.n =>
                  FirstSeen(ValuesMet, last.rank[i].k) < FirstSeen(ValuesMet, last.rank[j].k)

\* C14: the results of both frequency functions are ordered by count
\* descending and items with equal counts keep the order in which their
\* values were first met, also for values made of digits only (stated for
\* stores whose counts are all numbers).
C14_TiesKeepFirstSeenOrder ==
    (last.op \in {"frequentEntries", "frequentWords"} /\ AllCountsAreNumbers) =>
        CountDescendingTiesFirstSeen

\* The order of C14 holds whenever no returned value is an array index.
OrderHoldsWithoutIndices ==
    (/\ last.op \in {"frequentEntries", "frequentWords"}
     /\ AllCountsAreNumbers
     /\ \A i \in 1..Len(last.rank) : ~IsArrayIndex(last.rank[i].k)) =>
        CountDescendingTiesFirstSeen

Coffee == <<"c", "o", "f", "f", "e", "e">>

\* The store holds exactly the three entries of the scenario, on any dates.
CoffeeScenario ==
    /\ Len(StoredTexts) = 3
    /\ {StoredTexts[i] : i \in 1..3}
           = {<<"C", "o", "f", "f", "e", "e">>, Coffee \o <<SP>>, <<"T", "e", "a">>}

EntriesCounted ==
    /\ last.res = "value"
    /\ Len(last.rank) <= last.limit
    /\ \A i \in 1..Len(last.rank) :
          /\ last.rank[i].v.num
          /\ last.rank[i].v.n
                 = Cardinality({j \in 1..Len(StoredTexts) :
                                   ToLowerCase(Trim(StoredTexts[j])) = last.rank[i].k})
          /\ last.rank[i].v.n >= 1
    /\ (CoffeeScenario /\ last.limit = 1) =>
          last.rank = <<[k |-> Coffee, v |-> Number(2)]>>

\* C15: mostFrequentEntries(limit) returns at most limit items, each the
\* trimmed lower-cased form of a stored entry with the number of stored
\* entries that have this form; Coffee, "coffee " and Tea with limit 1 give
\* (coffee, 2).
C15_EntriesCounted == last.op = "frequentEntries" => EntriesCounted

\* C15 holds for every store without the entry constructor.
EntriesCountedUnlessInherited ==
    (/\ last.op = "frequentEntries"
     /\ \A j \in 1..Len(StoredTexts) : ToLowerCase(Trim(StoredTexts[j])) # ConstructorName)
        => EntriesCounted

\* The number of times word stands in text as a whole token: between two
\* characters that are not word characters (or the ends of the text).
TokenOccurrences(text, word) ==
    Cardinality({i \in 1..(Len(text) - Len(word) + 1) :
        /\ SubSeq(text, i, i + Len(word) - 1) = word
        /\ i > 1 => ~IsWordChar(text[i - 1])
        /\ i + Len(word) <= Len(text) => ~IsWordChar(text[i + Len(word)])})

RECURSIVE Sum(_)
Sum(numbers) == IF numbers = <<>> THEN 0 ELSE Head(numbers) + Sum(Tail(numbers))

WordsCounted ==
    /\ last.res = "value"
    /\ Len(last.rank) <= last.limit
    /\ \A i \in 1..Len(last.rank) :
          LET word == last.rank[i].k IN
          /\ Len(word) >= 3
          /\ word \notin stopWords
          /\ \A c \in 1..Len(word) : IsWordChar(word[c]) /\ ~IsUpper(word[c])
          /\ last.rank[i].v.num
          /\ last.rank[i].v.n
                 = Sum([j \in 1..Len(StoredTexts) |->
                           TokenOccurrences(ToLowerCase(StoredTexts[j]), word)])

\* C16: mostFrequentWords(limit) returns at most limit items, none shorter
\* than 3 characters or a stop word, each with the number of times the
\* lower-cased token occurs in all entries.
C16_WordsCounted == last.op = "frequentWords" => WordsCounted

\* C16 holds for every store without the word constructor.
WordsCountedUnlessInherited ==
    (/\ last.op = "frequentWords"
     /\ \A j \in 1..Len(StoredTexts) :
           TokenOccurrences(ToLowerCase(StoredTexts[j]), ConstructorName) = 0)
        => WordsCounted

SpecialChars == {COMMA, QUOTE, NL}

\* The position of the i-th character of field in its quoted form: behind
\* the opening quote and one further for every quote before it.
QuotedPosition(field, i) ==
    1 + i + Cardinality({j \in 1..(i - 1) : field[j] = QUOTE})

\* cell is field in double quotes with every quote of field doubled.
IsQuotedForm(cell, field) ==
    /\ Len(cell) = Len(field) + 2 + Cardinality({j \in 1..Len(field) : field[j] = QUOTE})
    /\ cell[1] = QUOTE
    /\ cell[Len(cell)] = QUOTE
    /\ \A i \in 1..Len(field) :
          /\ cell[QuotedPosition(field, i)] = field[i]
          /\ field[i] = QUOTE => cell[QuotedPosition(field, i) + 1] = QUOTE

\* The cell of the entry in an exported row (the date takes 10 characters
\* and the comma one).
ExportedCell == SubSeq(last.csv, Len(D1) + 2, Len(last.csv))

\* C17: on export a field is put in double quotes, its quotes doubled, if
\* and only if it holds a comma, a double quote or a newline; every other
\* field is emitted as it is.
C17_QuotedIffSpecial ==
    last.op = "exportRow" =>
        /\ SubSeq(last.csv, 1, Len(D1) + 1) = D1 \o <<COMMA>>
        /\ IF \E i \in 1..Len(last.text) : last.text[i] \in SpecialChars
           THEN IsQuotedForm(ExportedCell, last.text)
           ELSE ExportedCell = last.text

\* A field whose only special character is a newline was exported quoted.
C17_Witness ==
    /\ last.op = "exportRow"
    /\ last.text = <<"a", NL>>
    /\ ExportedCell = <<QUOTE, "a", NL, QUOTE>>

\* C18: parsing the exported form of a field as part of a line gives back
\* exactly the field: a comma in quotes does not split it and a doubled
\* quote is one quote; a,b"c exports as "a,b""c" and parses back.
C18_FieldRoundTrip ==
    last.op = "parseExportedRow" =>
        /\ last.row = <<D1, last.text>>
        /\ last.text = <<"a", COMMA, "b", QUOTE, "c">> =>
              last.csv = D1 \o <<COMMA, QUOTE, "a", COMMA, "b", QUOTE, QUOTE, "c", QUOTE>>

\* The field a,b"c went out as "a,b""c" and came back.
C18_Witness ==
    /\ last.op = "parseExportedRow"
    /\ last.text = <<"a", COMMA, "b", QUOTE, "c">>
    /\ ExportedCell = <<QUOTE, "a", COMMA, "b", QUOTE, QUOTE, "c", QUOTE>>
    /\ last.row[2] = last.text

\* The shape 4 digits, '-', 2 digits, '-', 2 digits.
MatchesDateShape(date) ==
    /\ Len(date) = 10
    /\ \A i \in 1..10 :
          IF i \in {5, 8} THEN date[i] = "-"
          ELSE \E n \in 0..9 : date[i] = DigitChar(n)

\* The line is a data row that is accepted.
Accepted(line) ==
    LET row == parseCSVLine(Trim(line)) IN
    /\ Len(row) >= 2
    /\ Trim(row[1]) # <<>>
    /\ Trim(row[2]) # <<>>
    /\ MatchesDateShape(Trim(row[1]))

DateOfLine(line) == Trim(parseCSVLine(Trim(line))[1])

EntryOfLine(line) == Trim(parseCSVLine(Trim(line))[2])

\* The lines of the parsed file behind its first line.
DataRows == Tail(last.list)

AcceptedRowNumbers == {i \in 1..Len(DataRows) : Accepted(DataRows[i])}

\* C19: the first line of the content is never data: the mapping is the one
\* of the same content under the header line, and the count is the number
\* of accepted rows behind the first line.
C19_FirstLineSkipped ==
    last.op = "parseCSV" =>
        /\ last.imp = parseCSV(Join(<<Header>> \o DataRows, <<NL>>))
        /\ last.count = Cardinality(AcceptedRowNumbers)

\* The first line is the valid row 2025-01-01,a, the second 2025-01-02,a:
\* only the second is imported.
C19_Witness ==
    /\ last.op = "parseCSV"
    /\ last.list = <<D1 \o <<COMMA, "a">>, D2 \o <<COMMA, "a">>>>
    /\ Accepted(last.list[1])
    /\ last.imp = <<[k |-> D2, v |-> <<<<"a">>>>]>>
    /\ last.count = 1

\* C20: a data row contributes an entry if and only if it has at least 2
\* fields, its trimmed date and entry fields are not empty and the trimmed
\* date has the date shape, real date or not; the mapping holds, per date,
\* the trimmed entries of the accepted rows in file order, and the rejected
\* rows change nothing.
C20_RowsAcceptedAndGrouped ==
    last.op = "parseCSV" =>
        /\ ObjectKeys(last.imp) = {DateOfLine(DataRows[i]) : i \in AcceptedRowNumbers}
        /\ \A p, q \in 1..Len(last.imp) : last.imp[p].k = last.imp[q].k => p = q
        /\ \A p \in 1..Len(last.imp) :
              last.imp[p].v
                  = PickAscending([i \in 1..Len(DataRows) |-> EntryOfLine(DataRows[i])],
                                  {i \in AcceptedRowNumbers :
                                      DateOfLine(DataRows[i]) = last.imp[p].k})
        /\ last.imp = parseCSV(Join(<<Header>> \o PickAscending(DataRows, AcceptedRowNumbers),
                                    <<NL>>))

\* A file with the rows 2025-01-01,b / 2025/01/01,a / 2025-01-01,a padded
\* with blanks: the second is rejected, the others stand under their date in
\* file order.
C20_Witness ==
    /\ last.op = "parseCSV"
    /\ last.list = <<Header,
                     D1 \o <<COMMA, "b">>,
                     SlashDate \o <<COMMA, "a">>,
                     <<SP>> \o D1 \o <<SP, COMMA, SP, "a", SP>>>>
    /\ last.imp = <<[k |-> D1, v |-> <<<<"b">>, <<"a">>>>]>>

\* The text is not empty and has no whitespace at either end.
IsTrimmedText(text) ==
    /\ Len(text) >= 1
    /\ ~IsWhitespace(text[1])
    /\ ~IsWhitespace(text[Len(text)])

\* C21: from the empty store on, whatever is added, updated or imported,
\* every entry stored under every date is non-empty and is its own trimmed
\* form.
C21_EntriesTrimmed ==
    \A d \in 1..Len(StoreNow) :
        \A i \in 1..Len(StoreNow[d].v) : IsTrimmedText(StoreNow[d].v[i])

\* An update with a text that ends in a blank has replaced an entry, and the
\* store also holds an entry that an import or an add put there.
C21_Witness ==
    /\ last.op = "update"
    /\ last.res = "true"
    /\ last.text = <<"A", SP>>
    /\ Get(StoreNow, last.key)[last.index + 1] = <<"A">>
    /\ TotalCount(StoreNow) = 2

\* The number of days of the month m of the year y.
DaysInMonth(y, m) ==
    IF m \in {4, 6, 9, 11} THEN 30
    ELSE IF m # 2 THEN 31
    ELSE IF y % 4 = 0 /\ (y % 100 # 0 \/ y % 400 = 0) THEN 29
    ELSE 28

\* The key is YYYY-MM-DD and names a day that exists.
IsRealDate(key) ==
    /\ MatchesDateShape(key)
    /\ LET y == DigitValue(key[1]) * 1000 + DigitValue(key[2]) * 100
                    + DigitValue(key[3]) * 10 + DigitValue(key[4])
           m == DigitValue(key[6]) * 10 + DigitValue(key[7])
           d == DigitValue(key[9]) * 10 + DigitValue(key[10])
       IN  /\ m \in 1..12
           /\ d \in 1..DaysInMonth(y, m)

\* C22: from the empty store on, whatever is added, updated or imported,
\* every key of the store is a YYYY-MM-DD string that names a real calendar
\* date.
C22_KeysAreRealDates ==
    \A d \in 1..Len(StoreNow) : IsRealDate(StoreNow[d].k)

ReadOnlyCalls == {"streak", "longest", "frequentEntries", "frequentWords", "export"}

\* C23: the current streak, the longest streak, the two frequency functions
\* and the export leave the persisted store as it was before the call.
C23_ReadersKeepStore ==
    last.op \in ReadOnlyCalls => slot = last.pre

\* The most frequent words of a store with an entry were returned.
C23_Witness ==
    /\ last.op = "frequentWords"
    /\ last.res = "value"
    /\ Len(last.rank) >= 1
    /\ TotalCount(StoreNow) >= 1
    /\ slot = last.pre

\* C24: under add, update and import no date disappears, no list gets
\* shorter and the entry at a position changes only by a successful update
\* of that date and position, so the index an edit started with still names
\* the same position when it is saved. Stated for every step: the store
\* before the last call against the store after it.
C24_PositionsStable ==
    \A d \in 1..Len(StoreBefore) :
        LET key == StoreBefore[d].k
            old == StoreBefore[d].v
            new == ListOf(StoreNow, key)
        IN  /\ HasKey(StoreNow, key)
            /\ Len(new) >= Len(old)
            /\ \A i \in 1..Len(old) :
                  new[i] # old[i] =>
                      /\ last.op = "update"
                      /\ last.res = "true"
                      /\ last.key = key
                      /\ last.index = i - 1

\* A successful update of the second entry of a date: the first is as it
\* was, the second is the new text.
C24_Witness ==
    /\ last.op = "update"
    /\ last.res = "true"
    /\ last.index = 1
    /\ Len(Get(StoreBefore, last.key)) = 2
    /\ Get(StoreNow, last.key)[1] = Get(StoreBefore, last.key)[1]
    /\ Get(StoreNow, last.key)[2] = <<"A">>
    /\ Get(StoreBefore, last.key)[2] # <<"A">>

\* C25: an import is idempotent: when an import has completed, the same
\* file imported again, with storage working or not, leaves the persisted
\* store exactly as it is, also for a file that repeats a row.
C25_ImportIdempotent ==
    (last.op = "importLoad" /\ last.res = "resolve") =>
        \A ok \in BOOLEAN : onload(slot, last.file, ok).slot = slot

\* The file with a repeated row was imported into a store that already held
\* both of its rows from an import before: the store is as it was.
C25_Witness ==
    /\ last.op = "importLoad"
    /\ last.res = "resolve"
    /\ last.file = "merge.csv"
    /\ ListOf(StoreBefore, D1) = <<<<"A">>, <<"A">>>>
    /\ slot = last.pre

\* C26: after an import an entry that the file holds several times for a
\* date stands in that date's list no more often than max(1, the number of
\* times it stood there before), whether the date existed or not.
C26_DuplicateRowsOnce ==
    (last.op = "importLoad" /\ last.res = "resolve") =>
        \A d \in 1..Len(last.imp) :
            LET date == last.imp[d].k
                items == last.imp[d].v
            IN  \A i \in 1..Len(items) :
                    Occurrences(items, items[i]) >= 2 =>
                        Occurrences(ListOf(StoreNow, date), items[i])
                            <= (IF Occurrences(ListOf(StoreBefore, date), items[i]) >= 1
                                THEN Occurrences(ListOf(StoreBefore, date), items[i])
                                ELSE 1)

\* The claim of C26 holds whenever the date of the repeated row is in the
\* store before the import.
DuplicateRowsOnceForKnownDates ==
    (last.op = "importLoad" /\ last.res = "resolve") =>
        \A d \in 1..Len(last.imp) :
            LET date == last.imp[d].k
                items == last.imp[d].v
            IN  HasKey(StoreBefore, date) =>
                    \A i \in 1..Len(items) :
                        Occurrences(ListOf(StoreNow, date), items[i])
                            <= (IF Occurrences(ListOf(StoreBefore, date), items[i]) >= 1
                                THEN Occurrences(ListOf(StoreBefore, date), items[i])
                                ELSE 1)

\* Every entry of the object old is in the object new, under its date and at
\* its position.
KeepsEvery(old, new) ==
    \A d \in 1..Len(old) :
        /\ HasKey(new, old[d].k)
        /\ Len(Get(new, old[d].k)) >= Len(old[d].v)
        /\ \A i \in 1..Len(old[d].v) : Get(new, old[d].k)[i] = old[d].v[i]

\* C27: no update is lost across the asynchronous boundary of an import.
\* reader.onload reads the store, merges and saves in one step when the
\* content arrives, so whatever add, update or another import wrote while
\* the read was pending is in the store that step reads: the store after a
\* completed read holds every entry the store held just before it, and in
\* every state the completion of any read still pending would keep every
\* entry the store holds now.
C27_NoLostUpdate ==
    /\ last.op = "importLoad" => KeepsEvery(StoreBefore, StoreNow)
    /\ \A file \in pending : \A ok \in BOOLEAN :
           KeepsEvery(StoreNow, getAllEntries(onload(slot, file, ok).slot).val)

\* Another import has completed and written while a read was still pending,
\* and the pending read, completing now, would write as well.
C27_Witness ==
    /\ last.op = "importLoad"
    /\ last.res = "resolve"
    /\ StoreNow # StoreBefore
    /\ TotalCount(StoreNow) >= 1
    /\ \E file \in pending :
           /\ onload(slot, file, TRUE).res = "resolve"
           /\ onload(slot, file, TRUE).slot # slot

\* The current streak just computed is at most the longest streak of the
\* same store in the zone, and that is at most the number of days with
\* entries.
StreaksOrderedIn(zone) ==
    (last.op = "streak" /\ last.res = "value") =>
        /\ last.count <= calculateLongestStreak(slot, zone).count
        /\ calculateLongestStreak(slot, zone).count
              <= getDaysWithEntriesCount(slot).count

\* C28: for every store and every today the current streak is at most the
\* longest streak, and the longest streak is at most the number of dates
\* that have at least one entry, in whatever time zone the browser runs.
C28_StreaksOrdered == \A zone \in Zones : StreaksOrderedIn(zone)

\* Where no clock change lies between the dates the order holds.
StreaksOrderedWithoutClockChange == StreaksOrderedIn(UTC)

\* The longest streak is at most the number of days with entries in every
\* zone.
LongestAtMostDays ==
    \A zone \in Zones :
        calculateLongestStreak(slot, zone).count <= getDaysWithEntriesCount(slot).count

\* C29: a submit of the Today form with fewer than 3 items that are
\* non-empty after trimming leaves the slot as it was; with 3 or more and
\* storage that accepts writes it appends the trimmed non-empty items, one
\* entry each and in field order, to the list of today's date, reports that
\* many entries added, and leaves every other date alone.
C29_FormSubmit ==
    last.op = "submit" =>
        LET wanted == SelectSeq([i \in 1..Len(last.fields) |-> Trim(last.fields[i])],
                                LAMBDA item : item # <<>>)
        IN  /\ Len(wanted) < 3 => slot = last.pre
            /\ (Len(wanted) >= 3 /\ last.ok) =>
                  /\ ListOf(StoreNow, last.key) = ListOf(StoreBefore, last.key) \o wanted
                  /\ SameElsewhere(StoreBefore, StoreNow, last.key)
                  /\ last.count = Len(wanted)
                  /\ TotalCount(StoreNow) = TotalCount(StoreBefore) + Len(wanted)

\* A form with a blank input among four, three of them non-empty and one in
\* need of trimming, was added after an entry the date already had.
C29_Witness ==
    /\ last.op = "submit"
    /\ last.res = "added"
    /\ last.fields = << <<SP, "a">>, <<SP>>, <<"b">>, <<"c", SP>> >>
    /\ ListOf(StoreBefore, last.key) = << <<"b">> >>
    /\ ListOf(StoreNow, last.key) = << <<"b">>, <<"a">>, <<"b">>, <<"c">> >>

\* Two non-empty items among the inputs were refused.
FormRefusedTwoItems ==
    /\ last.op = "submit"
    /\ last.res = "tooFew"
    /\ Len(NonEmptyItems(last.fields)) = 2

\* The date string is not later than the day the clock shows.
NotLaterThanToday(dateString) ==
    ~StringGreater(dateString, getTodayDateString(last.today))

\* C30: after any sequence of calendar interactions the selected date is
\* not later than today, and no date of the store, which only the calendar
\* form writes here, is later than today.
C30_SelectedNotFuture ==
    /\ NotLaterThanToday(last.key)
    /\ \A d \in 1..Len(StoreNow) : NotLaterThanToday(StoreNow[d].k)

\* A day click, a month selection, the Today button and opening the view
\* never select a date later than today.
GuardedSelectionsNotFuture ==
    last.op \in {"dayClick", "selectMonth", "today", "switchView"} =>
        NotLaterThanToday(last.key)

\* While the selected date is not later than today the form adds nothing
\* under a later date.
FormAddsUnderSelectedDate ==
    (last.op = "calendarSubmit" /\ last.res = "added") =>
        /\ ListOf(StoreNow, last.key) = NonEmptyItems(last.fields)
        /\ SameElsewhere(StoreBefore, StoreNow, last.key)

====
